---- MODULE Spec2Model ----
(***************************************************************************)
(* CrossChainRegistry backend canister: the verification and trust-scoring *)
(* engine (challenge protocol, proof monitoring, scoring, rate limiting).  *)
(*                                                                         *)
(* Time: ic_cdk::api::time() counts nanoseconds.  Every duration the code  *)
(* uses is a whole number of seconds, so the model counts seconds and the  *)
(* clock advances by whole seconds; 60_000_000_000 ns is written 60.       *)
(* time() is constant during one message execution, and messages executed  *)
(* in the same round read the same time(): operations taken at one value   *)
(* of now model that.                                                      *)
(***************************************************************************)
EXTENDS Integers, Sequences, FiniteSets, TLC

VARIABLES
    now,                   \* ic_cdk::api::time()
    companies,             \* COMPANIES: company_id -> Company
    domain_challenges,     \* DOMAIN_CHALLENGES: company_id -> challenge
    crosschain_challenges, \* CROSSCHAIN_CHALLENGES: challenge_key -> challenge
    rate_limits,           \* HTTP_RATE_LIMITS: principal -> Vec<u64>
    tasks,                 \* MONITORING_TASKS: task_id -> MonitoringTask
    alerts,                \* COMMUNITY_ALERTS: alert_id -> CommunityAlert
    events,                \* SECURITY_EVENTS: event_id -> SecurityEvent
    proof_monitoring,      \* PROOF_MONITORING: proof_id -> ProofMonitoring
    inflight,              \* calls suspended on their HTTPS outcall
    last,                  \* the most recent call and what it returned
    class_history,         \* observer: per identity and class, a limiter fed that class alone
    admitted_log,          \* observer: per identity, times of the latest admitted calls
    used_classes,          \* observer: per identity, the action classes it has called
    consumed,              \* observer: (entity, target) pairs accepted and not re-issued since
    calls,                 \* observer: the number of calls made so far
    report_counts          \* observer: admitted reports per (entity, proof id)

vars == <<now, companies, domain_challenges, crosschain_challenges, rate_limits,
          tasks, alerts, events, proof_monitoring, inflight, last,
          class_history, admitted_log, used_classes, consumed, calls, report_counts>>

(***************************************************************************)
(* Bounds of the model                                                     *)
(***************************************************************************)
MaxRateTicks == 3
MaxLogLen == 10
MaxInflight == 2
MaxConcurrentCalls == 7
MaxCompanies == 2
MaxChalTicks == 3
MaxProofs == 2
MaxChallenges == 2
MaxChalCalls == 8
MaxMonTicks == 4
MaxMonCalls == 6
MaxReportTicks == 2
MaxReportCalls == 9
MaxTicks == 2
MaxCalls == 4
MaxAuthTicks == 1
MaxAuthCalls == 8
MaxStakeCompanies == 4
MaxStakeTicks == 3
MaxStakeCalls == 11
MaxFraudCompanies == 7
MaxFraudAuthored == 4
MaxFraudCalls == 19
MaxFraudHours == 1
MaxAlertCompanies == 2
MaxAlertTicks == 2
MaxAlertCalls == 6
MaxCommunityCompanies == 2
MaxCommunityTicks == 1
MaxCommunityCalls == 6
MaxFairEnqueueTicks == 1
MaxFairTicks == 6
MaxFairCalls == 4

(***************************************************************************)
(* Program constants (durations in seconds)                                *)
(***************************************************************************)
HTTP_MAX_REQUESTS == 10
HTTP_WINDOW == 60
VERIFICATION_MAX_REQUESTS == 5
VERIFICATION_WINDOW == 300
REPORT_MAX_REQUESTS == 3
REPORT_WINDOW == 600
CLEANUP_WINDOW == 300
HISTORY_CAP == 1000
HISTORY_KEEP == 100
DOMAIN_CHALLENGE_TTL == 86400
CROSSCHAIN_CHALLENGE_TTL == 172800
PROOF_CHECK_DELAY == 3600
PROOF_CHECK_MAX_RETRIES == 3
RETRY_BACKOFF == 3600
REPUTATION_UPDATE_DELAY == 300
REPUTATION_UPDATE_MAX_RETRIES == 1
REMOVED_PENALTY == 20
DISPUTED_PENALTY == 10
FLAG_THRESHOLD == 30
REPORT_THRESHOLD == 3
ONE_HOUR == 3600
RAPID_ENDORSEMENTS == 5
SAME_AUTHOR_LIMIT == 2
LOW_ENDORSER_REPUTATION == 20
INTEGRITY_THRESHOLD == 50

Principals == {"p1", "p2"}
Classes == {"http", "verification", "report"}

\* The canister runs long after the epoch: time() exceeds every window.
StartTime == 2 * REPORT_WINDOW

NoCall == [op |-> "none"]

EmptyMap == [x \in {} |-> x]

Max(a, b) == IF a >= b THEN a ELSE b
Min(a, b) == IF a <= b THEN a ELSE b

\* u64::saturating_sub
saturating_sub(a, b) == IF a >= b THEN a - b ELSE 0

(***************************************************************************)
(* RateLimiter: StorageManager::check_rate_limit_with_config               *)
(***************************************************************************)
\* requests.retain(|&timestamp| timestamp > window_start)
InWindowGe(timestamp, window_start) == timestamp >= window_start
InWindow(timestamp, window_start) == timestamp > window_start

\* if requests.len() < max_requests
UnderLimitLe(len, max_requests) == len <= max_requests
UnderLimit(len, max_requests) == len < max_requests

check_rate_limit_with_config(requests, t, max_requests, window_size_ns) ==
    LET window_start == saturating_sub(t, window_size_ns)
        retained == SelectSeq(requests, LAMBDA ts : InWindow(ts, window_start))
        kept == IF Len(retained) > HISTORY_CAP
                THEN SubSeq(retained, Len(retained) - HISTORY_KEEP + 1, Len(retained))
                ELSE retained
    IN  IF UnderLimit(Len(kept), max_requests)
        THEN [allowed |-> TRUE, requests |-> Append(kept, t)]
        ELSE [allowed |-> FALSE, requests |-> kept]

ClassLimit(class) ==
    CASE class = "http" -> HTTP_MAX_REQUESTS
      [] class = "verification" -> VERIFICATION_MAX_REQUESTS
      [] class = "report" -> REPORT_MAX_REQUESTS

ClassWindow(class) ==
    CASE class = "http" -> HTTP_WINDOW
      [] class = "verification" -> VERIFICATION_WINDOW
      [] class = "report" -> REPORT_WINDOW

\* check_http_rate_limit / check_verification_rate_limit / check_report_rate_limit:
\* all three read and write the one table HTTP_RATE_LIMITS.
check_rate_limit(limits, principal, class, t) ==
    check_rate_limit_with_config(limits[principal], t, ClassLimit(class), ClassWindow(class))

check_http_rate_limit(limits, principal, t) == check_rate_limit(limits, principal, "http", t)
check_verification_rate_limit(limits, principal, t) ==
    check_rate_limit(limits, principal, "verification", t)
check_report_rate_limit(limits, principal, t) == check_rate_limit(limits, principal, "report", t)

\* The latest MaxLogLen entries of a log.
Latest(log) == IF Len(log) > MaxLogLen THEN SubSeq(log, Len(log) - MaxLogLen + 1, Len(log)) ELSE log

CountSeq(s, Test(_)) == Len(SelectSeq(s, Test))

(***************************************************************************)
(* Data.  Option<T> is a sequence of length at most one.  A text that the  *)
(* code searches or filters (a URL) is a sequence of atoms: substring      *)
(* search is the occurrence of the atom, character filtering the removal   *)
(* of atoms.  Identifiers built with format!("prefix_{}", time()) are the  *)
(* time itself, one table per prefix.                                      *)
(***************************************************************************)
None == <<>>
Some(x) == <<x>>
is_some(o) == Len(o) = 1
is_empty(s) == Len(s) = 0
Range(s) == {s[i] : i \in DOMAIN s}

\* "system": the company_id of alerts raised by create_security_alert.
SYSTEM == 0

Put(map, key, value) == [k \in DOMAIN map \cup {key} |-> IF k = key THEN value ELSE map[k]]
Remove(map, key) == [k \in DOMAIN map \ {key} |-> map[k]]

\* str::contains on a text of atoms
contains(text, needle) == \E i \in DOMAIN text : text[i] = needle

\* VerificationManager::sanitize_url: keeps [A-Za-z0-9./:-_?=&#], at most 500.
UrlSafeAtoms ==
    {"https://", "http://", "x.com", "evil.io", "etherscan.io", "acme.io",
     "/acme/status/", "/address/", "1", "404", "deleted", "0xA1", "0xB2"}
sanitize_url(url) ==
    LET kept == SelectSeq(url, LAMBDA a : a \in UrlSafeAtoms)
    IN  IF Len(kept) > 500 THEN SubSeq(kept, 1, 500) ELSE kept

\* VerificationManager::validate_secure_url
validate_secure_url(url, allowed_domains) ==
    /\ Len(url) >= 2
    /\ url[1] = "https://"
    /\ url[2] \in allowed_domains

\* VerificationManager::extract_domain_from_url: ^https?://([^/]+)
extract_domain_from_url(url) ==
    IF Len(url) >= 2 /\ url[1] \in {"https://", "http://"} THEN Some(url[2]) ELSE None

\* MonitoringSystem::simulate_url_check
simulate_url_check(url) == ~contains(url, "deleted") /\ ~contains(url, "404")

\* MonitoringSystem::generate_proof_id: format!("{}_{}", verification_type, verified_at)
ProofId(kind, ref, at) == [kind |-> kind, ref |-> ref, at |-> at]
generate_proof_id(proof) == ProofId(proof.verification_type, "", proof.verified_at)
\* crosschain.rs: format!("ethereum_{}_{}", contract_address, proof.verified_at)
ethereum_proof_id(contract_address, verified_at) == ProofId("ethereum", contract_address, verified_at)

\* StorageManager::generate_crosschain_challenge_key:
\* format!("{}_{}_{}_{}", company_id, chain, address, time())
generate_crosschain_challenge_key(company_id, chain, address, t) == <<company_id, chain, address, t>>

(***************************************************************************)
(* VerificationManager::calculate_verification_score                       *)
(***************************************************************************)
ScoreUncapped(score) == score
CapScore(score) == Min(score, 100)

RawScore(company) ==
    LET b == company.basic_info
        w == company.web3_identity
        x == company.cross_chain_presence
        pts(cond, n) == IF cond THEN n ELSE 0
        verified_team_count == CountSeq(company.team_members, LAMBDA m : m.verified)
    IN    pts(b.name # "", 5) + pts(b.description # "", 5)
        + pts(~is_empty(b.website), 5) + pts(~is_empty(b.focus_areas), 5)
        + pts(is_some(w.github_org), 10) + pts(w.domain_verified, 10)
        + pts(w.social_verification_status = "Verified", 10)
        + pts(~is_empty(x.ethereum_contracts), 5) + pts(~is_empty(x.bitcoin_addresses), 5)
        + pts(~is_empty(x.icp_canisters), 5) + pts(~is_empty(x.solana_addresses), 5)
        + pts(~is_empty(x.sui_addresses), 5) + pts(~is_empty(x.ton_addresses), 5)
        + pts(~is_empty(x.treasury_wallets), 5) + pts(~is_empty(x.token_contracts), 5)
        + Min(verified_team_count * 3, 15)
        + Min(company.community_validation.reputation_score \div 10, 10)

calculate_verification_score(company) == CapScore(RawScore(company))

(***************************************************************************)
(* StorageManager: companies                                               *)
(***************************************************************************)
\* StorageManager::update_company with the closure's result already applied:
\* stamps updated_at and stores; false when the company does not exist.
storage_update_company(cs, company_id, updated, t) ==
    IF company_id \in DOMAIN cs
    THEN Put(cs, company_id, [updated EXCEPT !.updated_at = t])
    ELSE cs

\* StorageManager::generate_company_id: format!("company_{}", time())
generate_company_id(t) == t

(***************************************************************************)
(* MonitoringSystem::log_security_event and create_security_alert          *)
(***************************************************************************)
create_security_alert(als, event_id, event_type, details, t) ==
    Put(als, t, [alert_id |-> t, company_id |-> SYSTEM, alert_type |-> "SecurityBreach",
                 message |-> <<"Security Event", event_id, event_type>>,
                 evidence |-> <<details>>, created_at |-> t, acknowledged |-> FALSE,
                 severity |-> "Critical"])

\* The tables events and alerts after the call, as a record.
log_security_event(st, event_type, principal, severity, details, t) ==
    LET event == [event_id |-> t, event_type |-> event_type, principal |-> principal,
                  timestamp |-> t, severity |-> severity, details |-> details]
    IN  [st EXCEPT !.events = Put(st.events, t, event),
                   !.alerts = IF severity \in {"Critical", "High"}
                              THEN create_security_alert(st.alerts, t, event_type, details, t)
                              ELSE st.alerts]

(***************************************************************************)
(* Initial state: the canister after init(), all tables empty.             *)
(***************************************************************************)
Init ==
    /\ now = StartTime
    /\ companies = EmptyMap
    /\ domain_challenges = EmptyMap
    /\ crosschain_challenges = EmptyMap
    /\ rate_limits = [p \in Principals |-> <<>>]
    /\ tasks = EmptyMap
    /\ alerts = EmptyMap
    /\ events = EmptyMap
    /\ proof_monitoring = EmptyMap
    /\ inflight = EmptyMap
    /\ last = NoCall
    /\ class_history = [p \in Principals |-> [c \in Classes |-> <<>>]]
    /\ admitted_log = [p \in Principals |-> <<>>]
    /\ used_classes = [p \in Principals |-> {}]
    /\ consumed = {}
    /\ calls = 0
    /\ report_counts = EmptyMap

(***************************************************************************)
(* A rate-limited entry point reaching its limiter call: the limiter's     *)
(* verdict for (principal, class) at time now.                             *)
(***************************************************************************)
\* The limiter table after a handler's limiter call.
RateStep(principal, class, r) ==
    /\ rate_limits' = [rate_limits EXCEPT ![principal] = r.requests]
    /\ UNCHANGED <<class_history, admitted_log, used_classes>>

NoRate == UNCHANGED <<rate_limits, class_history, admitted_log, used_classes>>

RateLimitedCall(principal, class) ==
    LET r == check_rate_limit(rate_limits, principal, class, now)
        alone == check_rate_limit_with_config(class_history[principal][class], now,
                                              ClassLimit(class), ClassWindow(class))
    IN  /\ rate_limits' = [rate_limits EXCEPT ![principal] = r.requests]
        /\ class_history' = [class_history EXCEPT ![principal][class] = alone.requests]
        /\ admitted_log' = [admitted_log EXCEPT ![principal] =
                               IF r.allowed THEN Latest(Append(@, now)) ELSE @]
        /\ used_classes' = [used_classes EXCEPT ![principal] = @ \cup {class}]
        /\ last' = [op |-> "rate_limit", caller |-> principal, class |-> class,
                    allowed |-> r.allowed, alone_allowed |-> alone.allowed,
                    log_before |-> admitted_log[principal],
                    single_class |-> used_classes[principal] \subseteq {class},
                    at |-> now]
        /\ UNCHANGED <<now, companies, domain_challenges, crosschain_challenges, tasks,
                       alerts, events, proof_monitoring, inflight, consumed>>

RateTick(steps, ticks) ==
    /\ \E d \in steps :
          /\ now + d <= StartTime + ticks * d
          /\ now' = now + d
    /\ last' = NoCall
    /\ UNCHANGED <<companies, domain_challenges, crosschain_challenges, rate_limits, tasks,
                   alerts, events, proof_monitoring, inflight, class_history,
                   admitted_log, used_classes, consumed>>

(***************************************************************************)
(* The clock: time() at the next message is later by one of steps, up to   *)
(* horizon.                                                                *)
(***************************************************************************)
Tick(steps, horizon) ==
    /\ \E d \in steps :
          /\ now + d <= horizon
          /\ now' = now + d
    /\ last' = NoCall
    /\ UNCHANGED <<companies, domain_challenges, crosschain_challenges, rate_limits, tasks,
                   alerts, events, proof_monitoring, inflight, class_history,
                   admitted_log, used_classes, consumed>>

(***************************************************************************)
(* RegistryAPI: create_company, update_company                             *)
(***************************************************************************)
\* str::trim().is_empty() on the names the model uses
trim_is_empty(name) == name \in {"", " "}

\* RegistryAPI::validate_company_request (the length checks on single texts
\* hold for every text of the model)
validate_company_request(request) ==
    /\ ~trim_is_empty(request.basic_info.name)
    /\ Len(request.basic_info.focus_areas) <= 10
    /\ \A f \in {"ethereum_contracts", "bitcoin_addresses", "solana_addresses",
                 "sui_addresses", "ton_addresses"} :
          Len(request.cross_chain_presence[f]) <= 20
    /\ Len(request.team_members) <= 50

NewCompany(request, caller, t) ==
    LET company == [id |-> generate_company_id(t),
                    basic_info |-> request.basic_info,
                    web3_identity |-> [request.web3_identity EXCEPT !.verification_proofs = <<>>],
                    cross_chain_presence |-> request.cross_chain_presence,
                    team_members |-> request.team_members,
                    community_validation |-> [peer_endorsements |-> <<>>,
                                              employee_testimonials |-> <<>>,
                                              community_vouches |-> <<>>,
                                              reputation_score |-> 0,
                                              reputation_staked |-> 0],
                    status |-> "Pending",
                    created_at |-> t,
                    updated_at |-> t,
                    created_by |-> caller,
                    verification_score |-> 0]
    IN  [company EXCEPT !.verification_score = calculate_verification_score(company)]

create_company(request, caller) ==
    /\ IF validate_company_request(request)
       THEN /\ companies' = Put(companies, generate_company_id(now), NewCompany(request, caller, now))
            /\ last' = [op |-> "create_company", caller |-> caller, result |-> "Ok",
                        company_id |-> generate_company_id(now)]
       ELSE /\ UNCHANGED companies
            /\ last' = [op |-> "create_company", caller |-> caller, result |-> "Err",
                        company_id |-> generate_company_id(now)]
    /\ NoRate
    /\ UNCHANGED <<now, domain_challenges, crosschain_challenges, tasks, alerts, events,
                   proof_monitoring, inflight, consumed>>

\* The closure of RegistryAPI::update_company
ApplyUpdateRequest(company, request) ==
    LET c1 == IF is_some(request.basic_info)
              THEN [company EXCEPT !.basic_info = request.basic_info[1]] ELSE company
        c2 == IF is_some(request.web3_identity)
              THEN [c1 EXCEPT !.web3_identity = request.web3_identity[1]] ELSE c1
        c3 == IF is_some(request.cross_chain_presence)
              THEN [c2 EXCEPT !.cross_chain_presence = request.cross_chain_presence[1]] ELSE c2
        c4 == IF is_some(request.team_members)
              THEN [c3 EXCEPT !.team_members = request.team_members[1]] ELSE c3
    IN  [c4 EXCEPT !.verification_score = calculate_verification_score(c4)]

update_company(company_id, request, caller) ==
    /\ IF company_id \notin DOMAIN companies
       THEN /\ UNCHANGED companies
            /\ last' = [op |-> "update_company", caller |-> caller, result |-> "ErrNotFound",
                        company_id |-> company_id]
       ELSE IF companies[company_id].created_by # caller
       THEN /\ UNCHANGED companies
            /\ last' = [op |-> "update_company", caller |-> caller, result |-> "ErrUnauthorized",
                        company_id |-> company_id]
       ELSE /\ companies' = storage_update_company(companies, company_id,
                                ApplyUpdateRequest(companies[company_id], request), now)
            /\ last' = [op |-> "update_company", caller |-> caller, result |-> "Ok",
                        company_id |-> company_id]
    /\ NoRate
    /\ UNCHANGED <<now, domain_challenges, crosschain_challenges, tasks, alerts, events,
                   proof_monitoring, inflight, consumed>>

(***************************************************************************)
(* Calls suspended on an HTTPS outcall.  A handler with an await is two    *)
(* atomic steps: the call up to the await, and the continuation run when   *)
(* the response is delivered.                                              *)
(***************************************************************************)
FreeSlots == (1..MaxInflight) \ DOMAIN inflight
NextSlot == CHOOSE i \in FreeSlots : \A j \in FreeSlots : i <= j

\* MonitoringSystem::schedule_proof_monitoring
schedule_proof_monitoring(ts, company_id, proof_id, priority, t) ==
    Put(ts, t, [task_id |-> t, task_type |-> "ProofCheck",
                target_company_id |-> company_id, target_proof_id |-> Some(proof_id),
                scheduled_at |-> t + PROOF_CHECK_DELAY, priority |-> priority,
                retry_count |-> 0, max_retries |-> PROOF_CHECK_MAX_RETRIES,
                last_error |-> None])

\* if time() > challenge.expires_at
is_expired_late(t, challenge) == t > challenge.expires_at + DOMAIN_CHALLENGE_TTL
is_expired(t, challenge) == t > challenge.expires_at

(***************************************************************************)
(* Domain challenge protocol (verification.rs)                             *)
(***************************************************************************)
DomainTarget(company_id) == <<company_id, "domain", "">>

\* A variant that takes every caller for the creator.
is_creator_any(company, caller) == caller \in Principals

\* company.created_by != caller_principal of the create-challenge handlers
is_creator(company, caller) == company.created_by = caller

create_domain_verification_challenge(company_id, caller) ==
    LET domain == IF company_id \in DOMAIN companies
                  THEN extract_domain_from_url(companies[company_id].basic_info.website)
                  ELSE None
        result == IF company_id \notin DOMAIN companies THEN "ErrNotFound"
                  ELSE IF ~is_creator(companies[company_id], caller) THEN "ErrUnauthorized"
                  ELSE IF ~is_some(domain) THEN "ErrInvalidUrl"
                  ELSE "Ok"
        challenge == [company_id |-> company_id, domain |-> domain[1], challenge_token |-> now,
                      created_at |-> now, expires_at |-> now + DOMAIN_CHALLENGE_TTL]
    IN  /\ domain_challenges' = IF result = "Ok"
                                THEN Put(domain_challenges, company_id, challenge)
                                ELSE domain_challenges
        /\ consumed' = consumed \ {DomainTarget(company_id)}
        /\ last' = [op |-> "create_domain_verification_challenge", caller |-> caller,
                    company_id |-> company_id, result |-> result]
        /\ NoRate
        /\ UNCHANGED <<now, companies, crosschain_challenges, tasks, alerts, events,
                       proof_monitoring, inflight>>

\* verify_domain_ownership up to its await
verify_domain_ownership(company_id, caller) ==
    LET r == check_verification_rate_limit(rate_limits, caller, now)
        stored == company_id \in DOMAIN domain_challenges
        expired == stored /\ is_expired(now, domain_challenges[company_id])
        result == IF ~r.allowed THEN "ErrRateLimit"
                  ELSE IF ~stored THEN "ErrNotFound"
                  ELSE IF expired THEN "ErrExpired"
                  ELSE "Await"
        after == IF result = "ErrExpired" THEN Remove(domain_challenges, company_id)
                 ELSE domain_challenges
    IN  /\ result = "Await" => FreeSlots # {}
        /\ RateStep(caller, "verification", r)
        /\ domain_challenges' = after
        /\ inflight' = IF result = "Await"
                       THEN Put(inflight, NextSlot, [op |-> "verify_domain_ownership",
                                            company_id |-> company_id, caller |-> caller,
                                            address |-> "", challenge_key |-> company_id,
                                            challenge |-> domain_challenges[company_id],
                                            was_consumed |-> DomainTarget(company_id) \in consumed])
                       ELSE inflight
        /\ last' = [op |-> "verify_domain_ownership", phase |-> "call", caller |-> caller,
                    company_id |-> company_id, target |-> DomainTarget(company_id),
                    result |-> result,
                    was_consumed |-> DomainTarget(company_id) \in consumed,
                    at |-> now, admitted |-> r.allowed,
                    looked_up |-> IF stored THEN Some(domain_challenges[company_id]) ELSE None,
                    challenge_stored_after |-> company_id \in DOMAIN after,
                    entity_unchanged |-> TRUE]
        /\ UNCHANGED <<now, companies, crosschain_challenges, tasks, alerts, events,
                       proof_monitoring, consumed>>

DnsOutcomes == {"transport_error", "bad_status", "token_absent", "token_found"}

\* response_text.contains(&challenge.challenge_token), reached on status 200
contains_challenge_token(outcome) == outcome = "token_found"

\* verify_domain_ownership from the delivery of the DNS response
verify_domain_ownership_response(slot, outcome) ==
    LET f == inflight[slot]
        company_id == f.company_id
        success == contains_challenge_token(outcome) /\ company_id \in DOMAIN companies
        verified == [companies[company_id] EXCEPT !.web3_identity.domain_verified = TRUE]
        updated == [verified EXCEPT !.verification_score = calculate_verification_score(verified)]
        result == CASE outcome = "transport_error" -> "ErrRequestFailed"
                    [] outcome = "bad_status" -> "ErrStatus"
                    [] outcome = "token_absent" -> "NotVerified"
                    [] outcome = "token_found" -> IF success THEN "Ok" ELSE "ErrUpdateFailed"
        cs == IF success THEN storage_update_company(companies, company_id, updated, now)
              ELSE companies
    IN  /\ slot \in DOMAIN inflight
        /\ f.op = "verify_domain_ownership"
        /\ inflight' = Remove(inflight, slot)
        /\ companies' = cs
        /\ domain_challenges' = IF success THEN Remove(domain_challenges, company_id)
                                ELSE domain_challenges
        /\ consumed' = IF success THEN consumed \cup {DomainTarget(company_id)} ELSE consumed
        /\ last' = [op |-> "verify_domain_ownership", phase |-> "response", caller |-> f.caller,
                    outcome |-> outcome,
                    company_id |-> company_id, target |-> DomainTarget(company_id),
                    result |-> result, was_consumed |-> f.was_consumed,
                    at |-> now, admitted |-> TRUE, looked_up |-> Some(f.challenge),
                    challenge_stored_after |->
                        company_id \in DOMAIN domain_challenges /\ ~success,
                    entity_unchanged |-> cs = companies]
        /\ NoRate
        /\ UNCHANGED <<now, crosschain_challenges, tasks, alerts, events, proof_monitoring>>

(***************************************************************************)
(* Cross-chain challenge protocol (crosschain.rs)                          *)
(***************************************************************************)
\* The addresses of the model that pass CrossChainVerifier::validate_address_format
WellFormedAddresses(chain) ==
    CASE chain = "ethereum" -> {"0xA1", "0xB2"}
      [] chain = "bitcoin" -> {"bc1"}
      [] chain = "icp" -> {"ryjl3-tyaaa-aaaaa-aaaba-cai"}
      [] OTHER -> {}

validate_address_format(chain, address) == address \in WellFormedAddresses(chain)

ChainTarget(company_id, chain, address) == <<company_id, chain, address>>

create_crosschain_challenge(company_id, chain, address, caller) ==
    LET r == check_verification_rate_limit(rate_limits, caller, now)
        result == IF ~r.allowed THEN "ErrRateLimit"
                  ELSE IF company_id \notin DOMAIN companies THEN "ErrNotFound"
                  ELSE IF ~is_creator(companies[company_id], caller) THEN "ErrUnauthorized"
                  ELSE IF ~validate_address_format(chain, address) THEN "ErrInvalidAddress"
                  ELSE "Ok"
        challenge == [company_id |-> company_id, chain_type |-> chain,
                      address_or_contract |-> address, created_at |-> now,
                      expires_at |-> now + CROSSCHAIN_CHALLENGE_TTL]
        key == generate_crosschain_challenge_key(company_id, chain, address, now)
        st == [events |-> events, alerts |-> alerts]
        logged == CASE result = "ErrRateLimit" ->
                         log_security_event(st, "RateLimitExceeded", Some(caller), "Medium",
                                            <<"cross-chain challenge creation">>, now)
                    [] result = "ErrNotFound" ->
                         log_security_event(st, "SuspiciousInput", Some(caller), "Low",
                                            <<"challenge for non-existent company", company_id>>, now)
                    [] result = "ErrUnauthorized" ->
                         log_security_event(st, "UnauthorizedAccess", Some(caller), "Medium",
                                            <<"unauthorized challenge attempt", company_id>>, now)
                    [] result = "ErrInvalidAddress" -> st
                    [] result = "Ok" ->
                         log_security_event(st, "SecurityScan", Some(caller), "Low",
                                            <<"challenge created", company_id, address>>, now)
    IN  /\ RateStep(caller, "verification", r)
        /\ crosschain_challenges' = IF result = "Ok"
                                    THEN Put(crosschain_challenges, key, challenge)
                                    ELSE crosschain_challenges
        /\ events' = logged.events
        /\ alerts' = logged.alerts
        /\ consumed' = consumed \ {ChainTarget(company_id, chain, address)}
        /\ last' = [op |-> "create_crosschain_challenge", caller |-> caller,
                    company_id |-> company_id, result |-> result]
        /\ UNCHANGED <<now, companies, domain_challenges, tasks, proof_monitoring, inflight>>

\* StorageManager::find_crosschain_challenge_key: the first matching entry in key
\* order; the keys of one (company, chain, address) differ in their time suffix.
MatchingKeys(company_id, chain, address) ==
    {k \in DOMAIN crosschain_challenges :
        /\ crosschain_challenges[k].company_id = company_id
        /\ crosschain_challenges[k].chain_type = chain
        /\ crosschain_challenges[k].address_or_contract = address}

find_crosschain_challenge_key(company_id, chain, address) ==
    LET ks == MatchingKeys(company_id, chain, address)
    IN  IF ks = {} THEN None ELSE Some(CHOOSE k \in ks : \A j \in ks : k[4] <= j[4])

\* verify_ethereum_contract up to its await
verify_ethereum_contract(company_id, contract_address) ==
    LET found == find_crosschain_challenge_key(company_id, "ethereum", contract_address)
        stored == is_some(found)
        expired == stored /\ is_expired(now, crosschain_challenges[found[1]])
        result == IF ~stored THEN "ErrNotFound"
                  ELSE IF expired THEN "ErrExpired"
                  ELSE "Await"
        after == IF result = "ErrExpired" THEN Remove(crosschain_challenges, found[1])
                 ELSE crosschain_challenges
        target == ChainTarget(company_id, "ethereum", contract_address)
    IN  /\ result = "Await" => FreeSlots # {}
        /\ crosschain_challenges' = after
        /\ inflight' = IF result = "Await"
                       THEN Put(inflight, NextSlot, [op |-> "verify_ethereum_contract",
                                            company_id |-> company_id, caller |-> "",
                                            address |-> contract_address,
                                            challenge_key |-> found[1],
                                            challenge |-> crosschain_challenges[found[1]],
                                            was_consumed |-> target \in consumed])
                       ELSE inflight
        /\ last' = [op |-> "verify_ethereum_contract", phase |-> "call", caller |-> "",
                    company_id |-> company_id, target |-> target, result |-> result,
                    was_consumed |-> target \in consumed,
                    at |-> now, admitted |-> TRUE,
                    looked_up |-> IF stored THEN Some(crosschain_challenges[found[1]]) ELSE None,
                    challenge_stored_after |-> stored /\ found[1] \in DOMAIN after,
                    entity_unchanged |-> TRUE]
        /\ NoRate
        /\ UNCHANGED <<now, companies, domain_challenges, tasks, alerts, events,
                       proof_monitoring, consumed>>

EtherscanOutcomes == {"transport_error", "bad_status", "parse_error", "message_absent",
                      "message_found"}

\* A variant that accepts whatever the outcall returned, failures included.
verify_ethereum_challenge_any(outcome) == outcome \in EtherscanOutcomes

\* CrossChainVerifier::verify_ethereum_challenge, reached on a parsed 200 response
verify_ethereum_challenge(outcome) == outcome = "message_found"

EtherscanUrl(contract_address) == <<"https://", "etherscan.io", "/address/", contract_address>>

\* The closure passed to update_company by verify_ethereum_contract
AddVerifiedContract(company, contract_address, proof) ==
    LET x == company.cross_chain_presence
        contracts == IF contract_address \in Range(x.ethereum_contracts)
                     THEN x.ethereum_contracts
                     ELSE Append(x.ethereum_contracts, contract_address)
        wallets == [i \in DOMAIN x.treasury_wallets |->
                       IF x.treasury_wallets[i].address = contract_address
                          /\ x.treasury_wallets[i].chain = "ethereum"
                       THEN [x.treasury_wallets[i] EXCEPT !.verified = TRUE]
                       ELSE x.treasury_wallets[i]]
        tokens == [i \in DOMAIN x.token_contracts |->
                      IF x.token_contracts[i].contract_address = contract_address
                         /\ x.token_contracts[i].chain = "ethereum"
                      THEN [x.token_contracts[i] EXCEPT !.verified = TRUE]
                      ELSE x.token_contracts[i]]
    IN  [company EXCEPT !.cross_chain_presence.ethereum_contracts = contracts,
                        !.cross_chain_presence.treasury_wallets = wallets,
                        !.cross_chain_presence.token_contracts = tokens,
                        !.web3_identity.verification_proofs = Append(@, proof)]

\* verify_ethereum_contract from the delivery of the Etherscan response
verify_ethereum_contract_response(slot, outcome) ==
    LET f == inflight[slot]
        company_id == f.company_id
        contract_address == f.address
        success == verify_ethereum_challenge(outcome) /\ company_id \in DOMAIN companies
        proof == [verification_type |-> "GitHub", proof_url |-> EtherscanUrl(contract_address),
                  verified_at |-> now, verification_method |-> "Automated",
                  status |-> "Active"]
        cs == IF success
              THEN storage_update_company(companies, company_id,
                       AddVerifiedContract(companies[company_id], contract_address, proof), now)
              ELSE companies
        st == [events |-> events, alerts |-> alerts]
        logged == CASE outcome = "message_found" /\ success ->
                         log_security_event(st, "SecurityScan", None, "Low",
                                            <<"contract verified", company_id, contract_address>>, now)
                    [] outcome = "message_found" /\ ~success ->
                         log_security_event(st, "SuspiciousInput", None, "Medium",
                                            <<"failed to update company", company_id>>, now)
                    [] outcome = "message_absent" ->
                         log_security_event(st, "RepeatedFailedVerification", None, "Low",
                                            <<"challenge not found", company_id, contract_address>>, now)
                    [] OTHER ->
                         log_security_event(st, "SuspiciousInput", None, "Medium",
                                            <<outcome, contract_address>>, now)
        result == CASE outcome = "message_found" -> IF success THEN "Ok" ELSE "ErrUpdateFailed"
                    [] outcome = "message_absent" -> "NotVerified"
                    [] outcome = "transport_error" -> "ErrRequestFailed"
                    [] outcome = "bad_status" -> "ErrStatus"
                    [] outcome = "parse_error" -> "ErrParse"
        after == IF success THEN Remove(crosschain_challenges, f.challenge_key)
                 ELSE crosschain_challenges
    IN  /\ slot \in DOMAIN inflight
        /\ f.op = "verify_ethereum_contract"
        /\ inflight' = Remove(inflight, slot)
        /\ companies' = cs
        /\ crosschain_challenges' = after
        /\ events' = logged.events
        /\ alerts' = logged.alerts
        /\ tasks' = IF success
                    THEN schedule_proof_monitoring(tasks, company_id,
                             ethereum_proof_id(contract_address, proof.verified_at), "Medium", now)
                    ELSE tasks
        /\ consumed' = IF success
                       THEN consumed \cup {ChainTarget(company_id, "ethereum", contract_address)}
                       ELSE consumed
        /\ last' = [op |-> "verify_ethereum_contract", phase |-> "response", caller |-> "",
                    outcome |-> outcome,
                    company_id |-> company_id,
                    target |-> ChainTarget(company_id, "ethereum", contract_address),
                    result |-> result, was_consumed |-> f.was_consumed,
                    at |-> now, admitted |-> TRUE, looked_up |-> Some(f.challenge),
                    challenge_stored_after |-> f.challenge_key \in DOMAIN after,
                    entity_unchanged |-> cs = companies]
        /\ NoRate
        /\ UNCHANGED <<now, domain_challenges, proof_monitoring>>

\* One identity calling entry points of the three action classes.
RateNext ==
    /\ \/ \E class \in Classes : RateLimitedCall("p1", class)
       \/ RateTick({VERIFICATION_WINDOW}, MaxRateTicks - 1)
    /\ UNCHANGED <<calls, report_counts>>

SpecRate == Init /\ [][RateNext]_vars

\* One identity that only ever calls entry points of one action class; the clock
\* advances by half that class's window.
RateOneNext ==
    /\ \/ \E class \in Classes :
             /\ used_classes["p1"] \subseteq {class}
             /\ RateLimitedCall("p1", class)
       \/ RateTick({ClassWindow(c) \div 2 : c \in used_classes["p1"]}, MaxRateTicks)
    /\ UNCHANGED <<calls, report_counts>>

SpecRateOne == Init /\ [][RateOneNext]_vars

\* StorageManager::cleanup_rate_limits, run by the timer init() sets: every
\* history keeps the timestamps later than now - CLEANUP_WINDOW_NS; a history
\* left empty is dropped, which the table holds as the empty history.
cleanup_rate_limits ==
    LET cleanup_threshold == saturating_sub(now, CLEANUP_WINDOW)
        retained(requests) == SelectSeq(requests, LAMBDA timestamp : timestamp > cleanup_threshold)
    IN  /\ rate_limits' = [p \in DOMAIN rate_limits |-> retained(rate_limits[p])]
        /\ last' = [op |-> "cleanup_rate_limits", at |-> now,
                    removed |-> \E p \in DOMAIN rate_limits :
                                   retained(rate_limits[p]) # rate_limits[p]]
        /\ UNCHANGED <<now, companies, domain_challenges, crosschain_challenges, tasks,
                       alerts, events, proof_monitoring, inflight, class_history,
                       admitted_log, used_classes, consumed>>

\* One identity that only ever calls entry points of one action class, and
\* the cleanup timer firing at any time; class_history is then the history
\* the limiter would hold had the timer never fired.
SweepNext ==
    /\ \/ \E class \in Classes :
             /\ used_classes["p1"] \subseteq {class}
             /\ RateLimitedCall("p1", class)
       \/ cleanup_rate_limits
       \/ RateTick({ClassWindow(c) \div 2 : c \in used_classes["p1"]}, MaxRateTicks)
    /\ UNCHANGED <<calls, report_counts>>

SpecSweep == Init /\ [][SweepNext]_vars

(***************************************************************************)
(* Proof monitoring (monitoring.rs, storage.rs)                            *)
(***************************************************************************)
\* The tables a monitoring run reads and writes.
Tables ==
    [companies |-> companies, tasks |-> tasks, alerts |-> alerts, events |-> events,
     proof_monitoring |-> proof_monitoring]

Proofs(company) == company.web3_identity.verification_proofs

\* The index of the first element of seq that passes Test, 0 if none.
FirstIndex(seq, Test(_)) ==
    IF \E i \in DOMAIN seq : Test(seq[i])
    THEN CHOOSE i \in DOMAIN seq : Test(seq[i]) /\ \A j \in 1..(i - 1) : ~Test(seq[j])
    ELSE 0

\* StorageManager::update_proof_status: the first proof of the same type and
\* verified_at takes the new status.
update_proof_status(cs, company_id, proof, new_status, t) ==
    IF company_id \notin DOMAIN cs THEN [companies |-> cs, error |-> Some("Company not found")]
    ELSE LET i == FirstIndex(Proofs(cs[company_id]),
                             LAMBDA q : q.verification_type = proof.verification_type
                                        /\ q.verified_at = proof.verified_at)
         IN  IF i = 0 THEN [companies |-> cs, error |-> Some("Proof not found")]
             ELSE [companies |-> storage_update_company(cs, company_id,
                        [cs[company_id] EXCEPT
                            !.web3_identity.verification_proofs[i].status = new_status], t),
                   error |-> None]

\* StorageManager::update_proof_status_by_id
update_proof_status_by_id(cs, company_id, proof_id, new_status, t) ==
    IF company_id \notin DOMAIN cs THEN [companies |-> cs, error |-> Some("Company not found")]
    ELSE LET i == FirstIndex(Proofs(cs[company_id]), LAMBDA q : generate_proof_id(q) = proof_id)
         IN  IF i = 0 THEN [companies |-> cs, error |-> Some("Proof not found")]
             ELSE [companies |-> storage_update_company(cs, company_id,
                        [cs[company_id] EXCEPT
                            !.web3_identity.verification_proofs[i].status = new_status], t),
                   error |-> None]

\* handle_missing_proof once update_proof_status has returned Ok: the alert,
\* the tamper event and the ReputationUpdate task.
RecordMissingProof(st, cs, proof, company_id, t) ==
    LET alert == [alert_id |-> t, company_id |-> company_id, alert_type |-> "ProofDeleted",
                  message |-> <<"TRUST ALERT", proof.verification_type>>,
                  evidence |-> <<proof.proof_url>>, created_at |-> t,
                  acknowledged |-> FALSE, severity |-> "Error"]
        reputation_task == [task_id |-> t, task_type |-> "ReputationUpdate",
                            target_company_id |-> company_id, target_proof_id |-> None,
                            scheduled_at |-> t + REPUTATION_UPDATE_DELAY, priority |-> "High",
                            retry_count |-> 0, max_retries |-> REPUTATION_UPDATE_MAX_RETRIES,
                            last_error |-> None]
    IN  [log_security_event([st EXCEPT !.companies = cs, !.alerts = Put(st.alerts, t, alert)],
                            "ProofTampering", None, "High",
                            <<"verification proof deleted", company_id>>, t)
            EXCEPT !.tasks = Put(@, t, reputation_task)]

\* handle_missing_proof from the result u of update_proof_status
MissingProofHandled(st, u, proof, company_id, t) ==
    IF is_some(u.error) THEN [st |-> st, error |-> u.error]
    ELSE [st |-> RecordMissingProof(st, u.companies, proof, company_id, t), error |-> None]

\* MonitoringSystem::handle_missing_proof
handle_missing_proof(st, proof, company_id, t) ==
    MissingProofHandled(st, update_proof_status(st.companies, company_id, proof, "Removed", t),
                        proof, company_id, t)

\* Self::handle_missing_proof(proof, company_id)?; return Err(..)
ProofInaccessible(h) ==
    IF is_some(h.error) THEN h
    ELSE [st |-> h.st, error |-> Some("Proof URL no longer accessible")]

\* MonitoringSystem::verify_proof_still_exists
monitor_proof_still_exists(st, proof, company_id, t) ==
    IF ~simulate_url_check(proof.proof_url)
    THEN ProofInaccessible(handle_missing_proof(st, proof, company_id, t))
    ELSE [st |-> [st EXCEPT !.proof_monitoring =
                     Put(@, generate_proof_id(proof),
                         [proof_id |-> generate_proof_id(proof), company_id |-> company_id,
                          last_checked |-> t,
                          check_results |-> <<[timestamp |-> t, status_found |-> "Active"]>>,
                          community_reports |-> <<>>])],
          error |-> None]

\* The body of the loop of check_proof_status over all proofs: a failed check
\* is logged and the loop goes on.
ProofCheckLogged(r, company_id, t) ==
    IF is_some(r.error)
    THEN log_security_event(r.st, "ProofTampering", None, "High",
                            <<"proof check failed", company_id>>, t)
    ELSE r.st

\* The loop of check_proof_status over all proofs of the company read at the
\* start of the check, from proof i on.
RECURSIVE CheckAllProofs(_, _, _, _, _)
CheckAllProofs(st, proofs, i, company_id, t) ==
    IF i > Len(proofs) THEN st
    ELSE CheckAllProofs(
             ProofCheckLogged(monitor_proof_still_exists(st, proofs[i], company_id, t),
                              company_id, t),
             proofs, i + 1, company_id, t)

\* MonitoringSystem::check_proof_status
check_proof_status(st, task, t) ==
    IF task.target_company_id \notin DOMAIN st.companies
    THEN [st |-> st, error |-> Some("Company not found")]
    ELSE LET company == st.companies[task.target_company_id]
         IN  IF is_some(task.target_proof_id)
             THEN LET i == FirstIndex(Proofs(company),
                                      LAMBDA q : generate_proof_id(q) = task.target_proof_id[1])
                  IN  IF i = 0 THEN [st |-> st, error |-> Some("Proof not found")]
                      ELSE monitor_proof_still_exists(st, Proofs(company)[i],
                                                      task.target_company_id, t)
             ELSE [st |-> CheckAllProofs(st, Proofs(company), 1, task.target_company_id, t),
                   error |-> None]

\* MonitoringSystem::update_reputation_scores
below_flag_threshold_le(score) == score <= FLAG_THRESHOLD
below_flag_threshold(score) == score < FLAG_THRESHOLD

reputation_penalty_flat(removed_proofs, disputed_proofs) ==
    (removed_proofs + disputed_proofs) * DISPUTED_PENALTY
reputation_penalty(removed_proofs, disputed_proofs) ==
    (removed_proofs * REMOVED_PENALTY) + (disputed_proofs * DISPUTED_PENALTY)

update_reputation_scores(st, task, t) ==
    IF task.target_company_id \notin DOMAIN st.companies
    THEN [st |-> st, error |-> Some("Company not found")]
    ELSE LET company == st.companies[task.target_company_id]
             removed_proofs == CountSeq(Proofs(company), LAMBDA q : q.status = "Removed")
             disputed_proofs == CountSeq(Proofs(company), LAMBDA q : q.status = "Disputed")
             penalty == reputation_penalty(removed_proofs, disputed_proofs)
             scored == [company EXCEPT
                           !.verification_score = saturating_sub(@, penalty)]
             flagged == IF below_flag_threshold(scored.verification_score)
                        THEN [scored EXCEPT !.status = "Flagged"]
                        ELSE scored
         IN  [st |-> [st EXCEPT !.companies =
                         storage_update_company(st.companies, task.target_company_id, flagged, t)],
              error |-> None]

\* MonitoringSystem::execute_monitoring_task
execute_monitoring_task(st, task, t) ==
    CASE task.task_type = "ProofCheck" -> check_proof_status(st, task, t)
      [] task.task_type = "ReputationUpdate" -> update_reputation_scores(st, task, t)
      [] OTHER -> [st |-> st, error |-> None]

\* StorageManager::get_pending_monitoring_tasks: if task.scheduled_at <= current_time
is_due_always(task, current_time) == TRUE
is_due(task, current_time) == task.scheduled_at <= current_time

RECURSIVE SortedSeq(_)
SortedSeq(S) ==
    IF S = {} THEN <<>>
    ELSE LET m == CHOOSE x \in S : \A y \in S : x <= y
         IN  <<m>> \o SortedSeq(S \ {m})

\* The due tasks as read at the start of the run, in key order.
get_pending_monitoring_tasks(ts, current_time) ==
    LET ids == SortedSeq({id \in DOMAIN ts : is_due(ts[id], current_time)})
    IN  [i \in DOMAIN ids |-> ts[ids[i]]]

\* A variant under which no task ever exhausts its retries.
retries_exhausted_never(task) == task.retry_count < 0

\* if task.retry_count >= task.max_retries
retries_exhausted_gt(task) == task.retry_count > task.max_retries
retries_exhausted(task) == task.retry_count >= task.max_retries

\* The record of one execution: the task as read, whether it succeeded, the
\* task as queued afterwards, the company before and after.
Executed(run, task, ok, st) ==
    [st |-> st,
     processed |-> IF ok THEN Append(run.processed, task.task_id) ELSE run.processed,
     executions |-> Append(run.executions,
                       [task |-> task, ok |-> ok,
                        queued_after |-> IF task.task_id \in DOMAIN st.tasks
                                         THEN Some(st.tasks[task.task_id]) ELSE None,
                        company_before |->
                            IF task.target_company_id \in DOMAIN run.st.companies
                            THEN Some(run.st.companies[task.target_company_id]) ELSE None,
                        company_after |->
                            IF task.target_company_id \in DOMAIN st.companies
                            THEN Some(st.companies[task.target_company_id]) ELSE None])]

\* The Err arm of the loop body: failed is the task with its retry_count
\* incremented and its last_error set.
TaskFailed(st, failed, current_time) ==
    IF retries_exhausted(failed)
    THEN [log_security_event(st, "ProofTampering", None, "High",
                             <<"monitoring task failed permanently", failed.task_id>>,
                             current_time)
             EXCEPT !.tasks = Remove(@, failed.task_id)]
    ELSE [st EXCEPT !.tasks =
             Put(@, failed.task_id,
                 [failed EXCEPT !.scheduled_at =
                     current_time + (failed.retry_count * RETRY_BACKOFF)])]

\* The match on the result r of execute_monitoring_task
TaskExecuted(run, task, r, current_time) ==
    IF ~is_some(r.error)
    THEN Executed(run, task, TRUE, [r.st EXCEPT !.tasks = Remove(@, task.task_id)])
    ELSE Executed(run, task, FALSE,
                  TaskFailed(r.st, [task EXCEPT !.retry_count = @ + 1, !.last_error = r.error],
                             current_time))

\* The body of the loop of process_monitoring_tasks for one task of the list.
\* run carries the tables, the processed ids and the record of every execution.
ProcessOneTask(run, task, current_time) ==
    TaskExecuted(run, task, execute_monitoring_task(run.st, task, current_time), current_time)

RECURSIVE ProcessFrom(_, _, _, _)
ProcessFrom(run, pending_tasks, i, current_time) ==
    IF i > Len(pending_tasks) THEN run
    ELSE ProcessFrom(ProcessOneTask(run, pending_tasks[i], current_time),
                     pending_tasks, i + 1, current_time)

\* MonitoringSystem::process_monitoring_tasks as a function of the tables
process_monitoring_tasks(st, current_time) ==
    ProcessFrom([st |-> st, processed |-> <<>>, executions |-> <<>>],
                get_pending_monitoring_tasks(st.tasks, current_time), 1, current_time)

Store(st) ==
    /\ companies' = st.companies
    /\ tasks' = st.tasks
    /\ alerts' = st.alerts
    /\ events' = st.events
    /\ proof_monitoring' = st.proof_monitoring

RunRecord(op, run, final) ==
    [op |-> op, at |-> now, processed |-> run.processed, executions |-> run.executions,
     tasks_before |-> tasks,
     entities_unchanged |-> final.companies = companies,
     tasks_unchanged |-> final.tasks = tasks,
     alerts_unchanged |-> final.alerts = alerts,
     events_unchanged |-> final.events = events]

\* A monitoring run stored: final is the tables as the caller of
\* process_monitoring_tasks leaves them.
RunCompleted(op, run, final) ==
    /\ Store(final)
    /\ last' = RunRecord(op, run, final)
    /\ NoRate
    /\ UNCHANGED <<now, domain_challenges, crosschain_challenges, inflight, consumed>>

ProcessRun(run) == RunCompleted("process_monitoring_tasks", run, run.st)

\* The update endpoint process_monitoring_tasks, and the hourly timer of init()
process_monitoring_tasks_call == ProcessRun(process_monitoring_tasks(Tables, now))

\* if !tasks.is_empty() { log_security_event(SecurityScan, Low) }
HeartbeatLogged(run) ==
    IF ~is_empty(run.processed)
    THEN log_security_event(run.st, "SecurityScan", None, "Low",
                            <<"heartbeat processed", Len(run.processed)>>, now)
    ELSE run.st

HeartbeatRun(run) == RunCompleted("heartbeat", run, HeartbeatLogged(run))

\* lib.rs heartbeat
heartbeat == HeartbeatRun(process_monitoring_tasks(Tables, now))

\* StorageManager::acknowledge_community_alert
acknowledge_community_alert(als, alert_id) ==
    IF alert_id \in DOMAIN als
    THEN Put(als, alert_id, [als[alert_id] EXCEPT !.acknowledged = TRUE])
    ELSE als

\* The update endpoint acknowledge_alert: any caller
acknowledge_alert(alert_id) ==
    /\ alerts' = acknowledge_community_alert(alerts, alert_id)
    /\ last' = [op |-> "acknowledge_alert", alert_id |-> alert_id,
                result |-> IF alert_id \in DOMAIN alerts THEN "Ok" ELSE "ErrNotFound"]
    /\ NoRate
    /\ UNCHANGED <<now, companies, domain_challenges, crosschain_challenges, tasks, events,
                   proof_monitoring, inflight, consumed>>

\* The update endpoint schedule_proof_monitoring: any caller, any arguments
schedule_proof_monitoring_call(company_id, proof_id, priority) ==
    /\ tasks' = schedule_proof_monitoring(tasks, company_id, proof_id, priority, now)
    /\ last' = [op |-> "schedule_proof_monitoring", company_id |-> company_id,
                proof_id |-> proof_id, result |-> "Ok"]
    /\ NoRate
    /\ UNCHANGED <<now, companies, domain_challenges, crosschain_challenges, alerts, events,
                   proof_monitoring, inflight, consumed>>

\* StorageManager::add_community_report
add_community_report(pm, company_id, proof_id, report, t) ==
    IF proof_id \in DOMAIN pm
    THEN Put(pm, proof_id, [pm[proof_id] EXCEPT !.community_reports = Append(@, report)])
    ELSE Put(pm, proof_id, [proof_id |-> proof_id, company_id |-> company_id,
                            last_checked |-> t, check_results |-> <<>>,
                            community_reports |-> <<report>>])

\* StorageManager::get_community_report_count
get_community_report_count(pm, company_id, proof_id) ==
    IF proof_id \in DOMAIN pm THEN Len(pm[proof_id].community_reports) ELSE 0

\* if report_count >= 3
report_threshold_reached_gt(report_count) == report_count > REPORT_THRESHOLD
report_threshold_reached(report_count) == report_count >= REPORT_THRESHOLD

CountOf(company_id, proof_id) ==
    IF <<company_id, proof_id>> \in DOMAIN report_counts
    THEN report_counts[<<company_id, proof_id>>] ELSE 0

StatusOf(cs, company_id, proof_id) ==
    IF company_id \notin DOMAIN cs THEN None
    ELSE LET i == FirstIndex(Proofs(cs[company_id]), LAMBDA q : generate_proof_id(q) = proof_id)
         IN  IF i = 0 THEN None ELSE Some(Proofs(cs[company_id])[i].status)

\* MonitoringSystem::submit_community_report with a proof id
submit_community_report(company_id, proof_id, report_type, reporter) ==
    LET r == check_report_rate_limit(rate_limits, reporter, now)
        report == [reporter_principal |-> reporter, report_type |-> report_type,
                   timestamp |-> now]
        pm == add_community_report(proof_monitoring, company_id, proof_id, report, now)
        report_count == get_community_report_count(pm, company_id, proof_id)
        reached == report_threshold_reached(report_count)
        u == update_proof_status_by_id(companies, company_id, proof_id, "Disputed", now)
        result == IF ~r.allowed THEN "ErrRateLimit"
                  ELSE IF reached /\ is_some(u.error) THEN "ErrProofStatus"
                  ELSE "Ok"
        st0 == [Tables EXCEPT !.proof_monitoring = pm]
        st1 == IF reached
               THEN [st0 EXCEPT !.companies = u.companies,
                                !.tasks = schedule_proof_monitoring(@, company_id, proof_id,
                                                                    "Critical", now)]
               ELSE st0
        final == CASE result = "ErrRateLimit" -> Tables
                   [] result = "ErrProofStatus" -> st0
                   [] result = "Ok" ->
                        log_security_event(st1, "CommunityReport", Some(reporter), "Medium",
                                           <<"community report", report_type>>, now)
        admitted_count == CountOf(company_id, proof_id) + 1
    IN  /\ RateStep(reporter, "report", r)
        /\ Store(final)
        /\ report_counts' = IF r.allowed
                            THEN Put(report_counts, <<company_id, proof_id>>, admitted_count)
                            ELSE report_counts
        /\ last' = [op |-> "submit_community_report", caller |-> reporter,
                    company_id |-> company_id, proof_id |-> proof_id, result |-> result,
                    admitted |-> r.allowed,
                    admitted_count |-> IF r.allowed THEN admitted_count ELSE admitted_count - 1,
                    status_before |-> StatusOf(companies, company_id, proof_id),
                    status_after |-> StatusOf(final.companies, company_id, proof_id),
                    critical_task_after |->
                        \E id \in DOMAIN final.tasks :
                            /\ final.tasks[id].task_type = "ProofCheck"
                            /\ final.tasks[id].priority = "Critical"
                            /\ final.tasks[id].target_company_id = company_id
                            /\ final.tasks[id].target_proof_id = Some(proof_id)]
        /\ UNCHANGED <<now, domain_challenges, crosschain_challenges, inflight, consumed>>

(***************************************************************************)
(* Social proofs and the public proof check (verification.rs)              *)
(***************************************************************************)
AllowedDomains(platform) ==
    CASE platform = "twitter" -> {"twitter.com", "x.com", "mobile.twitter.com"}
      [] platform = "discord" -> {"discord.gg", "discord.com", "discordapp.com"}
      [] platform = "telegram" -> {"t.me", "telegram.me"}
      [] OTHER -> {}

PlatformType(platform) ==
    CASE platform = "twitter" -> "Twitter"
      [] platform = "discord" -> "Discord"
      [] platform = "telegram" -> "Telegram"

verify_social_media_with_proof(company_id, platform, proof_url, caller) ==
    LET result == IF company_id \notin DOMAIN companies THEN "ErrNotFound"
                  ELSE IF companies[company_id].created_by # caller THEN "ErrUnauthorized"
                  ELSE IF platform \notin {"twitter", "discord", "telegram"}
                       THEN "ErrUnsupportedPlatform"
                  ELSE IF ~validate_secure_url(proof_url, AllowedDomains(platform))
                       THEN "ErrInvalidUrl"
                  ELSE "Ok"
        proof == [verification_type |-> PlatformType(platform),
                  proof_url |-> sanitize_url(proof_url), verified_at |-> now,
                  verification_method |-> "ProofVisible", status |-> "Active"]
        added == [companies[company_id] EXCEPT
                     !.web3_identity.verification_proofs = Append(@, proof),
                     !.web3_identity.social_verification_status = "Verified"]
        updated == [added EXCEPT !.verification_score = calculate_verification_score(added)]
    IN  /\ companies' = IF result = "Ok"
                        THEN storage_update_company(companies, company_id, updated, now)
                        ELSE companies
        /\ last' = [op |-> "verify_social_media_with_proof", caller |-> caller,
                    company_id |-> company_id, result |-> result]
        /\ NoRate
        /\ UNCHANGED <<now, domain_challenges, crosschain_challenges, tasks, alerts, events,
                       proof_monitoring, inflight, consumed>>

\* VerificationManager::verify_proof_still_exists up to its await
verify_proof_still_exists(company_id, proof_url, checker) ==
    LET r == check_http_rate_limit(rate_limits, checker, now)
    IN  /\ r.allowed => FreeSlots # {}
        /\ RateStep(checker, "http", r)
        /\ inflight' = IF r.allowed
                       THEN Put(inflight, NextSlot, [op |-> "verify_proof_still_exists",
                                                     company_id |-> company_id,
                                                     caller |-> checker,
                                                     proof_url |-> proof_url])
                       ELSE inflight
        /\ last' = [op |-> "verify_proof_still_exists", phase |-> "call", caller |-> checker,
                    company_id |-> company_id,
                    result |-> IF r.allowed THEN "Await" ELSE "ErrRateLimit"]
        /\ UNCHANGED <<now, companies, domain_challenges, crosschain_challenges, tasks, alerts,
                       events, proof_monitoring, consumed>>

ProofCheckOutcomes == {"transport_error", "status_200", "status_404", "status_other"}

\* The closure passed to update_company when the response status is 404
MarkRemovedByUrl(company, proof_url) ==
    LET marked == [company EXCEPT !.web3_identity.verification_proofs =
                      [i \in DOMAIN @ |-> IF @[i].proof_url = proof_url
                                          THEN [@[i] EXCEPT !.status = "Removed"]
                                          ELSE @[i]]]
    IN  [marked EXCEPT !.verification_score = calculate_verification_score(marked)]

\* verify_proof_still_exists from the delivery of the response
verify_proof_still_exists_response(slot, outcome) ==
    LET f == inflight[slot]
        removed == outcome = "status_404" /\ f.company_id \in DOMAIN companies
    IN  /\ slot \in DOMAIN inflight
        /\ f.op = "verify_proof_still_exists"
        /\ inflight' = Remove(inflight, slot)
        /\ companies' = IF removed
                        THEN storage_update_company(companies, f.company_id,
                                 MarkRemovedByUrl(companies[f.company_id], f.proof_url), now)
                        ELSE companies
        /\ last' = [op |-> "verify_proof_still_exists", phase |-> "response",
                    caller |-> f.caller, company_id |-> f.company_id,
                    result |-> CASE outcome = "transport_error" -> "ErrRequestFailed"
                                 [] outcome = "status_200" -> "Active"
                                 [] outcome = "status_404" -> "Removed"
                                 [] outcome = "status_other" -> "Disputed"]
        /\ NoRate
        /\ UNCHANGED <<now, domain_challenges, crosschain_challenges, tasks, alerts, events,
                       proof_monitoring, consumed>>

(***************************************************************************)
(* GitHub organization verification (verification.rs)                      *)
(***************************************************************************)
\* verify_github_organization up to its await
verify_github_organization(company_id, github_org, caller) ==
    LET authorized == company_id \in DOMAIN companies
                          /\ companies[company_id].created_by = caller
        r == check_verification_rate_limit(rate_limits, caller, now)
        result == IF company_id \notin DOMAIN companies THEN "ErrNotFound"
                  ELSE IF ~authorized THEN "ErrUnauthorized"
                  ELSE IF ~r.allowed THEN "ErrRateLimit"
                  ELSE "Await"
    IN  /\ result = "Await" => FreeSlots # {}
        /\ IF authorized THEN RateStep(caller, "verification", r) ELSE NoRate
        /\ inflight' = IF result = "Await"
                       THEN Put(inflight, NextSlot, [op |-> "verify_github_organization",
                                                     company_id |-> company_id,
                                                     caller |-> caller,
                                                     github_org |-> github_org,
                                                     company |-> companies[company_id]])
                       ELSE inflight
        /\ last' = [op |-> "verify_github_organization", phase |-> "call", caller |-> caller,
                    company_id |-> company_id, result |-> result]
        /\ UNCHANGED <<now, companies, domain_challenges, crosschain_challenges, tasks, alerts,
                       events, proof_monitoring, consumed>>

GitHubOutcomes == {"transport_error", "status_404", "status_other", "parse_error",
                   "no_public_repos", "has_public_repos"}

\* The company a handler read with get_company before its await.
company_read_before_await(cs, f) == f.company

\* StorageManager::update_company: the closure is applied to the company that
\* is stored when update_company runs (companies_map.get).
company_for_update(cs, f) == cs[f.company_id]

\* verify_github_organization from the delivery of the GitHub response
verify_github_organization_response(slot, outcome) ==
    LET f == inflight[slot]
        company_id == f.company_id
        success == outcome = "has_public_repos" /\ company_id \in DOMAIN companies
        verified == [company_for_update(companies, f) EXCEPT
                        !.web3_identity.github_org = Some(f.github_org),
                        !.web3_identity.social_verification_status = "Verified"]
        updated == [verified EXCEPT !.verification_score = calculate_verification_score(verified)]
        result == CASE outcome = "transport_error" -> "ErrRequestFailed"
                    [] outcome = "status_other" -> "ErrStatus"
                    [] outcome = "parse_error" -> "ErrParse"
                    [] outcome \in {"status_404", "no_public_repos"} -> "NotVerified"
                    [] outcome = "has_public_repos" ->
                         IF success THEN "Ok" ELSE "ErrUpdateFailed"
    IN  /\ slot \in DOMAIN inflight
        /\ f.op = "verify_github_organization"
        /\ inflight' = Remove(inflight, slot)
        /\ companies' = IF success
                        THEN storage_update_company(companies, company_id, updated, now)
                        ELSE companies
        /\ last' = [op |-> "verify_github_organization", phase |-> "response",
                    caller |-> f.caller, company_id |-> company_id, result |-> result,
                    changed_while_suspended |->
                        success /\ companies[company_id].community_validation
                                     # f.company.community_validation]
        /\ NoRate
        /\ UNCHANGED <<now, domain_challenges, crosschain_challenges, tasks, alerts, events,
                       proof_monitoring, consumed>>

(***************************************************************************)
(* Bitcoin address and ICP canister verification (crosschain.rs)           *)
(***************************************************************************)
\* verify_bitcoin_address up to its await
verify_bitcoin_address(company_id, bitcoin_address) ==
    LET found == find_crosschain_challenge_key(company_id, "bitcoin", bitcoin_address)
        stored == is_some(found)
        expired == stored /\ is_expired(now, crosschain_challenges[found[1]])
        result == IF ~stored THEN "ErrNotFound"
                  ELSE IF expired THEN "ErrExpired"
                  ELSE "Await"
        after == IF result = "ErrExpired" THEN Remove(crosschain_challenges, found[1])
                 ELSE crosschain_challenges
        target == ChainTarget(company_id, "bitcoin", bitcoin_address)
    IN  /\ result = "Await" => FreeSlots # {}
        /\ crosschain_challenges' = after
        /\ inflight' = IF result = "Await"
                       THEN Put(inflight, NextSlot, [op |-> "verify_bitcoin_address",
                                            company_id |-> company_id, caller |-> "",
                                            address |-> bitcoin_address,
                                            challenge_key |-> found[1],
                                            challenge |-> crosschain_challenges[found[1]],
                                            was_consumed |-> target \in consumed])
                       ELSE inflight
        /\ last' = [op |-> "verify_bitcoin_address", phase |-> "call", caller |-> "",
                    company_id |-> company_id, target |-> target, result |-> result,
                    was_consumed |-> target \in consumed,
                    at |-> now, admitted |-> TRUE,
                    looked_up |-> IF stored THEN Some(crosschain_challenges[found[1]]) ELSE None,
                    challenge_stored_after |-> stored /\ found[1] \in DOMAIN after,
                    entity_unchanged |-> TRUE]
        /\ NoRate
        /\ UNCHANGED <<now, companies, domain_challenges, tasks, alerts, events,
                       proof_monitoring, consumed>>

\* The address has transactions, and has transactions one of which carries the
\* challenge message: BlockchainInfoResponse keeps the count n_tx only.
BlockchainInfoOutcomes == {"transport_error", "bad_status", "parse_error",
                           "no_transactions", "has_transactions", "has_challenge_transaction"}

\* blockchain_data.n_tx > 0, reached on a parsed 200 response
has_transaction_history(outcome) ==
    outcome \in {"has_transactions", "has_challenge_transaction"}

\* The closure passed to update_company by verify_bitcoin_address
AddVerifiedBitcoinAddress(company, bitcoin_address) ==
    LET x == company.cross_chain_presence
        addresses == IF bitcoin_address \in Range(x.bitcoin_addresses)
                     THEN x.bitcoin_addresses
                     ELSE Append(x.bitcoin_addresses, bitcoin_address)
        wallets == [i \in DOMAIN x.treasury_wallets |->
                       IF x.treasury_wallets[i].address = bitcoin_address
                          /\ x.treasury_wallets[i].chain = "bitcoin"
                       THEN [x.treasury_wallets[i] EXCEPT !.verified = TRUE]
                       ELSE x.treasury_wallets[i]]
    IN  [company EXCEPT !.cross_chain_presence.bitcoin_addresses = addresses,
                        !.cross_chain_presence.treasury_wallets = wallets]

\* verify_bitcoin_address from the delivery of the Blockchain.info response
verify_bitcoin_address_response(slot, outcome) ==
    LET f == inflight[slot]
        company_id == f.company_id
        success == has_transaction_history(outcome) /\ company_id \in DOMAIN companies
        cs == IF success
              THEN storage_update_company(companies, company_id,
                       AddVerifiedBitcoinAddress(companies[company_id], f.address), now)
              ELSE companies
        result == CASE has_transaction_history(outcome) ->
                         IF success THEN "Ok" ELSE "ErrUpdateFailed"
                    [] outcome = "no_transactions" -> "NotVerified"
                    [] outcome = "transport_error" -> "ErrRequestFailed"
                    [] outcome = "bad_status" -> "ErrStatus"
                    [] outcome = "parse_error" -> "ErrParse"
        after == IF success THEN Remove(crosschain_challenges, f.challenge_key)
                 ELSE crosschain_challenges
    IN  /\ slot \in DOMAIN inflight
        /\ f.op = "verify_bitcoin_address"
        /\ inflight' = Remove(inflight, slot)
        /\ companies' = cs
        /\ crosschain_challenges' = after
        /\ consumed' = IF success
                       THEN consumed \cup {ChainTarget(company_id, "bitcoin", f.address)}
                       ELSE consumed
        /\ last' = [op |-> "verify_bitcoin_address", phase |-> "response", caller |-> "",
                    outcome |-> outcome,
                    company_id |-> company_id,
                    target |-> ChainTarget(company_id, "bitcoin", f.address),
                    result |-> result, was_consumed |-> f.was_consumed,
                    at |-> now, admitted |-> TRUE, looked_up |-> Some(f.challenge),
                    challenge_stored_after |-> f.challenge_key \in DOMAIN after,
                    entity_unchanged |-> cs = companies]
        /\ NoRate
        /\ UNCHANGED <<now, domain_challenges, tasks, alerts, events, proof_monitoring>>

\* CrossChainVerifier::is_valid_canister_id
is_valid_canister_id(canister_id) == canister_id \in WellFormedAddresses("icp")

\* verify_icp_canister: no await
verify_icp_canister(company_id, canister_id) ==
    LET found == find_crosschain_challenge_key(company_id, "icp", canister_id)
        stored == is_some(found)
        expired == stored /\ is_expired(now, crosschain_challenges[found[1]])
        exists == company_id \in DOMAIN companies
        result == IF ~stored THEN "ErrNotFound"
                  ELSE IF expired THEN "ErrExpired"
                  ELSE IF ~is_valid_canister_id(canister_id) THEN "NotVerified"
                  ELSE IF ~exists THEN "ErrUpdateFailed"
                  ELSE "Ok"
        x == companies[company_id].cross_chain_presence
        added == [companies[company_id] EXCEPT !.cross_chain_presence.icp_canisters =
                     IF canister_id \in Range(x.icp_canisters) THEN @
                     ELSE Append(@, canister_id)]
        cs == IF result = "Ok"
              THEN storage_update_company(companies, company_id, added, now)
              ELSE companies
        after == IF result \in {"ErrExpired", "Ok"}
                 THEN Remove(crosschain_challenges, found[1])
                 ELSE crosschain_challenges
        target == ChainTarget(company_id, "icp", canister_id)
    IN  /\ companies' = cs
        /\ crosschain_challenges' = after
        /\ consumed' = IF result = "Ok" THEN consumed \cup {target} ELSE consumed
        /\ last' = [op |-> "verify_icp_canister", phase |-> "call", caller |-> "",
                    company_id |-> company_id, target |-> target, result |-> result,
                    was_consumed |-> target \in consumed,
                    at |-> now, admitted |-> TRUE,
                    looked_up |-> IF stored THEN Some(crosschain_challenges[found[1]]) ELSE None,
                    challenge_stored_after |-> stored /\ found[1] \in DOMAIN after,
                    entity_unchanged |-> cs = companies]
        /\ NoRate
        /\ UNCHANGED <<now, domain_challenges, tasks, alerts, events, proof_monitoring,
                       inflight>>

(***************************************************************************)
(* Community validation (community.rs)                                     *)
(***************************************************************************)
\* (staked as f64).log10().ceil() for staked >= 1
RECURSIVE CeilLog10From(_, _, _)
CeilLog10From(n, k, power) ==
    IF power >= n THEN k ELSE CeilLog10From(n, k + 1, power * 10)

CeilLog10(n) == CeilLog10From(n, 0, 1)

RECURSIVE SumVouchWeights(_, _)
SumVouchWeights(vouches, i) ==
    IF i > Len(vouches) THEN 0 ELSE vouches[i].weight * 3 + SumVouchWeights(vouches, i + 1)

\* A variant whose lowest band is Flagged.
reputation_status_flagged(score) ==
    IF score <= 20 THEN "Flagged"
    ELSE IF score <= 50 THEN "Verified"
    ELSE "Trusted"

\* company.status = match score { 0..=20 => Pending, 21..=50 => Verified, _ => Trusted }
reputation_status(score) ==
    IF score <= 20 THEN "Pending"
    ELSE IF score <= 50 THEN "Verified"
    ELSE "Trusted"

\* CommunityValidationManager::update_reputation_score
update_reputation_score(company) ==
    LET cv == company.community_validation
        staking_bonus == IF cv.reputation_staked > 0
                         THEN CeilLog10(cv.reputation_staked) * 2 ELSE 0
        score == (company.verification_score \div 4)
                 + Len(cv.peer_endorsements) * 10
                 + CountSeq(cv.employee_testimonials, LAMBDA x : x.verified) * 5
                 + CountSeq(cv.employee_testimonials, LAMBDA x : ~x.verified) * 2
                 + SumVouchWeights(cv.community_vouches, 1)
                 + staking_bonus
        status == reputation_status(score)
    IN  [company EXCEPT !.community_validation.reputation_score = score,
                        !.status = status]

\* CommunityValidationManager::add_endorsement
\* A variant that never finds an endorsement of the endorser.
already_endorsed_never(company, endorser_company_id) == FALSE

\* peer_endorsements.iter().any(|e| e.endorser_company_id == endorser_company_id)
already_endorsed(company, endorser_company_id) ==
    \E i \in DOMAIN company.community_validation.peer_endorsements :
       company.community_validation.peer_endorsements[i].endorser_company_id
           = endorser_company_id

add_endorsement(company_id, endorser_company_id, message, caller) ==
    LET r == check_http_rate_limit(rate_limits, caller, now)
        result ==
            IF ~r.allowed THEN "ErrRateLimit"
            ELSE IF endorser_company_id \notin DOMAIN companies THEN "ErrEndorserNotFound"
            ELSE IF companies[endorser_company_id].created_by # caller THEN "ErrUnauthorized"
            ELSE IF company_id \notin DOMAIN companies THEN "ErrNotFound"
            ELSE IF company_id = endorser_company_id THEN "ErrSelfEndorsement"
            ELSE IF is_empty(message) THEN "ErrEmptyMessage"
            ELSE IF contains(message, "<script>") \/ contains(message, "javascript:")
                 THEN "ErrInvalidContent"
            ELSE IF already_endorsed(companies[company_id], endorser_company_id)
                 THEN "ErrAlreadyExists"
            ELSE "Ok"
        endorsement == [endorser_company_id |-> endorser_company_id, message |-> message,
                        timestamp |-> now, endorser_principal |-> caller]
        endorsed == update_reputation_score(
                        [companies[company_id] EXCEPT
                            !.community_validation.peer_endorsements = Append(@, endorsement)])
        st == [events |-> events, alerts |-> alerts]
        logged ==
            CASE result = "ErrRateLimit" ->
                     log_security_event(st, "RateLimitExceeded", Some(caller), "Medium",
                                        <<"endorsement rate limit">>, now)
              [] result = "ErrEndorserNotFound" ->
                     log_security_event(st, "SuspiciousInput", Some(caller), "Low",
                                        <<"endorser not found", endorser_company_id>>, now)
              [] result = "ErrUnauthorized" ->
                     log_security_event(st, "UnauthorizedAccess", Some(caller), "Medium",
                                        <<"unauthorized endorsement", endorser_company_id>>, now)
              [] result = "ErrNotFound" ->
                     log_security_event(st, "SuspiciousInput", Some(caller), "Low",
                                        <<"target not found", company_id>>, now)
              [] result = "ErrSelfEndorsement" ->
                     log_security_event(st, "SuspiciousInput", Some(caller), "Medium",
                                        <<"self-endorsement", company_id>>, now)
              [] result = "ErrInvalidContent" ->
                     log_security_event(st, "XSSAttempt", Some(caller), "High",
                                        <<"endorsement content", company_id>>, now)
              [] result = "Ok" ->
                     log_security_event(st, "SecurityScan", Some(caller), "Low",
                                        <<"endorsement created", company_id,
                                          endorser_company_id>>, now)
              [] OTHER -> st
    IN  /\ RateStep(caller, "http", r)
        /\ companies' = IF result = "Ok"
                        THEN storage_update_company(companies, company_id, endorsed, now)
                        ELSE companies
        /\ events' = logged.events
        /\ alerts' = logged.alerts
        /\ last' = [op |-> "add_endorsement", caller |-> caller, company_id |-> company_id,
                    result |-> result]
        /\ UNCHANGED <<now, domain_challenges, crosschain_challenges, tasks, proof_monitoring,
                       inflight, consumed>>

\* CommunityValidationManager::stake_reputation
stake_reputation(company_id, amount, caller) ==
    LET result == IF company_id \notin DOMAIN companies THEN "ErrNotFound"
                  ELSE IF companies[company_id].created_by # caller THEN "ErrUnauthorized"
                  ELSE IF amount = 0 THEN "ErrZeroAmount"
                  ELSE "Ok"
        staked == update_reputation_score(
                      [companies[company_id] EXCEPT
                          !.community_validation.reputation_staked = @ + amount])
    IN  /\ companies' = IF result = "Ok"
                        THEN storage_update_company(companies, company_id, staked, now)
                        ELSE companies
        /\ last' = [op |-> "stake_reputation", caller |-> caller, company_id |-> company_id,
                    result |-> result]
        /\ NoRate
        /\ UNCHANGED <<now, domain_challenges, crosschain_challenges, tasks, alerts, events,
                       proof_monitoring, inflight, consumed>>

\* What the community handlers below store: the company when the call
\* succeeded, the events and alerts of its log_security_event calls.
CommunityStored(op, caller, company_id, result, updated, logged) ==
    /\ companies' = IF result = "Ok"
                    THEN storage_update_company(companies, company_id, updated, now)
                    ELSE companies
    /\ events' = logged.events
    /\ alerts' = logged.alerts
    /\ last' = [op |-> op, caller |-> caller, company_id |-> company_id, result |-> result]
    /\ UNCHANGED <<now, domain_challenges, crosschain_challenges, tasks, proof_monitoring,
                   inflight, consumed>>

Unlogged == [events |-> events, alerts |-> alerts]

\* CommunityValidationManager::remove_endorsement
remove_endorsement(company_id, endorser_company_id, caller) ==
    LET result == IF endorser_company_id \notin DOMAIN companies THEN "ErrEndorserNotFound"
                  ELSE IF companies[endorser_company_id].created_by # caller
                       THEN "ErrUnauthorized"
                  ELSE IF company_id \notin DOMAIN companies THEN "ErrFailed"
                  ELSE "Ok"
        removed == update_reputation_score(
                       [companies[company_id] EXCEPT
                           !.community_validation.peer_endorsements =
                               SelectSeq(@, LAMBDA e : e.endorser_company_id
                                                          # endorser_company_id)])
    IN  /\ CommunityStored("remove_endorsement", caller, company_id, result, removed, Unlogged)
        /\ NoRate

\* the suspicious_content patterns of add_testimonial and add_vouch
SuspiciousContent ==
    {"<script>", "</script>", "javascript:", "onerror=", "onload=", "eval(",
     "document.cookie", "window.location"}

has_suspicious_content(text) == \E pattern \in SuspiciousContent : contains(text, pattern)

\* CommunityValidationManager::add_testimonial
add_testimonial(company_id, author_name, role, message, caller) ==
    LET r == check_http_rate_limit(rate_limits, caller, now)
        result ==
            IF ~r.allowed THEN "ErrRateLimit"
            ELSE IF company_id \notin DOMAIN companies THEN "ErrNotFound"
            ELSE IF is_empty(author_name) THEN "ErrEmptyAuthor"
            ELSE IF is_empty(role) THEN "ErrEmptyRole"
            ELSE IF is_empty(message) THEN "ErrEmptyMessage"
            ELSE IF \E text \in {author_name, role, message} : has_suspicious_content(text)
                 THEN "ErrInvalidContent"
            ELSE IF \E i \in DOMAIN companies[company_id].community_validation
                                        .employee_testimonials :
                       companies[company_id].community_validation.employee_testimonials[i]
                           .author_name = author_name
                 THEN "ErrAlreadyExists"
            ELSE "Ok"
        testimonial == [author_name |-> author_name, role |-> role, message |-> message,
                        timestamp |-> now, verified |-> FALSE]
        added == update_reputation_score(
                     [companies[company_id] EXCEPT
                         !.community_validation.employee_testimonials = Append(@, testimonial)])
        logged ==
            CASE result = "ErrRateLimit" ->
                     log_security_event(Unlogged, "RateLimitExceeded", Some(caller), "Medium",
                                        <<"testimonial rate limit">>, now)
              [] result = "ErrNotFound" ->
                     log_security_event(Unlogged, "SuspiciousInput", Some(caller), "Low",
                                        <<"testimonial target not found", company_id>>, now)
              [] result = "ErrInvalidContent" ->
                     log_security_event(Unlogged, "XSSAttempt", Some(caller), "High",
                                        <<"testimonial content", company_id, author_name>>, now)
              [] result = "Ok" ->
                     log_security_event(Unlogged, "SecurityScan", Some(caller), "Low",
                                        <<"testimonial created", author_name, role, company_id>>,
                                        now)
              [] OTHER -> Unlogged
    IN  /\ CommunityStored("add_testimonial", caller, company_id, result, added, logged)
        /\ RateStep(caller, "http", r)

\* CommunityValidationManager::remove_testimonial
remove_testimonial(company_id, author_name, caller) ==
    LET result ==
            IF company_id \notin DOMAIN companies THEN "ErrNotFound"
            ELSE IF ~\E i \in DOMAIN companies[company_id].community_validation
                                         .employee_testimonials :
                        companies[company_id].community_validation.employee_testimonials[i]
                            .author_name = author_name
                 THEN "ErrTestimonialNotFound"
            ELSE IF companies[company_id].created_by # caller THEN "ErrUnauthorized"
            ELSE "Ok"
        removed == update_reputation_score(
                       [companies[company_id] EXCEPT
                           !.community_validation.employee_testimonials =
                               SelectSeq(@, LAMBDA x : x.author_name # author_name)])
    IN  /\ CommunityStored("remove_testimonial", caller, company_id, result, removed, Unlogged)
        /\ NoRate

\* The testimonials with the first one of the author given the flag verified.
SetVerified(testimonials, author_name, verified) ==
    LET i == FirstIndex(testimonials, LAMBDA x : x.author_name = author_name)
    IN  IF i = 0 THEN testimonials ELSE [testimonials EXCEPT ![i].verified = verified]

\* CommunityValidationManager::verify_testimonial
verify_testimonial(company_id, author_name, caller) ==
    LET result == IF company_id \notin DOMAIN companies THEN "ErrNotFound"
                  ELSE IF companies[company_id].created_by # caller THEN "ErrUnauthorized"
                  ELSE "Ok"
        verified == update_reputation_score(
                        [companies[company_id] EXCEPT
                            !.community_validation.employee_testimonials =
                                SetVerified(@, author_name, TRUE)])
    IN  /\ CommunityStored("verify_testimonial", caller, company_id, result, verified, Unlogged)
        /\ NoRate

\* CommunityValidationManager::flag_testimonial: any caller
flag_testimonial(company_id, author_name, caller) ==
    LET result == IF company_id \notin DOMAIN companies THEN "ErrNotFound" ELSE "Ok"
        flagged == update_reputation_score(
                       [companies[company_id] EXCEPT
                           !.community_validation.employee_testimonials =
                               SetVerified(@, author_name, FALSE)])
    IN  /\ CommunityStored("flag_testimonial", caller, company_id, result, flagged, Unlogged)
        /\ NoRate

\* match vouch_count { 0..=2 => 1, 3..=10 => 2, 11..=25 => 3, _ => 5 }
voucher_weight(vouch_count) ==
    IF vouch_count <= 2 THEN 1
    ELSE IF vouch_count <= 10 THEN 2
    ELSE IF vouch_count <= 25 THEN 3
    ELSE 5

\* CommunityValidationManager::calculate_voucher_weight
calculate_voucher_weight(cs, voucher_principal) ==
    voucher_weight(
        Cardinality({<<c, i>> \in (DOMAIN cs) \X (1..MaxLogLen) :
                        /\ i \in DOMAIN cs[c].community_validation.community_vouches
                        /\ cs[c].community_validation.community_vouches[i].voucher_principal
                               = voucher_principal}))

\* CommunityValidationManager::add_vouch
add_vouch(company_id, message, caller) ==
    LET r == check_http_rate_limit(rate_limits, caller, now)
        result ==
            IF ~r.allowed THEN "ErrRateLimit"
            ELSE IF company_id \notin DOMAIN companies THEN "ErrNotFound"
            ELSE IF is_empty(message) THEN "ErrEmptyMessage"
            ELSE IF has_suspicious_content(message) THEN "ErrInvalidContent"
            ELSE IF \E i \in DOMAIN companies[company_id].community_validation
                                        .community_vouches :
                       companies[company_id].community_validation.community_vouches[i]
                           .voucher_principal = caller
                 THEN "ErrAlreadyExists"
            ELSE "Ok"
        weight == calculate_voucher_weight(companies, caller)
        vouch == [voucher_principal |-> caller, message |-> message, timestamp |-> now,
                  weight |-> weight]
        vouched == update_reputation_score(
                       [companies[company_id] EXCEPT
                           !.community_validation.community_vouches = Append(@, vouch)])
        logged ==
            CASE result = "ErrRateLimit" ->
                     log_security_event(Unlogged, "RateLimitExceeded", Some(caller), "Medium",
                                        <<"vouch rate limit">>, now)
              [] result = "ErrNotFound" ->
                     log_security_event(Unlogged, "SuspiciousInput", Some(caller), "Low",
                                        <<"vouch target not found", company_id>>, now)
              [] result = "ErrInvalidContent" ->
                     log_security_event(Unlogged, "XSSAttempt", Some(caller), "High",
                                        <<"vouch content", company_id>>, now)
              [] result = "Ok" ->
                     log_security_event(Unlogged, "SecurityScan", Some(caller), "Low",
                                        <<"vouch created", company_id, weight>>, now)
              [] OTHER -> Unlogged
    IN  /\ CommunityStored("add_vouch", caller, company_id, result, vouched, logged)
        /\ RateStep(caller, "http", r)

\* CommunityValidationManager::remove_vouch
remove_vouch(company_id, caller) ==
    LET result == IF company_id \notin DOMAIN companies THEN "ErrFailed" ELSE "Ok"
        removed == update_reputation_score(
                       [companies[company_id] EXCEPT
                           !.community_validation.community_vouches =
                               SelectSeq(@, LAMBDA v : v.voucher_principal # caller)])
    IN  /\ CommunityStored("remove_vouch", caller, company_id, result, removed, Unlogged)
        /\ NoRate

\* A variant that counts five recent endorsements as rapid.
rapid_endorsements_ge(cs, company_id, t) ==
    LET one_hour_ago == IF t > ONE_HOUR THEN t - ONE_HOUR ELSE 0
    IN  CountSeq(cs[company_id].community_validation.peer_endorsements,
                 LAMBDA e : e.timestamp > one_hour_ago) >= RAPID_ENDORSEMENTS

\* recent_endorsements > 5 of detect_validation_fraud
rapid_endorsements(cs, company_id, t) ==
    LET one_hour_ago == IF t > ONE_HOUR THEN t - ONE_HOUR ELSE 0
    IN  CountSeq(cs[company_id].community_validation.peer_endorsements,
                 LAMBDA e : e.timestamp > one_hour_ago) > RAPID_ENDORSEMENTS

\* CommunityValidationManager::detect_validation_fraud: the number of
\* suspicious patterns found for the company
detect_validation_fraud(cs, company_id, t) ==
    LET cv == cs[company_id].community_validation
        same_author_count(testimonial) ==
            Cardinality({<<c, i>> \in (DOMAIN cs) \X (1..MaxLogLen) :
                            /\ c # company_id
                            /\ i \in DOMAIN cs[c].community_validation.employee_testimonials
                            /\ cs[c].community_validation.employee_testimonials[i].author_name
                                   = testimonial.author_name})
        mutual(endorsement) ==
            /\ endorsement.endorser_company_id \in DOMAIN cs
            /\ \E i \in DOMAIN cs[endorsement.endorser_company_id]
                                    .community_validation.peer_endorsements :
                  cs[endorsement.endorser_company_id].community_validation
                      .peer_endorsements[i].endorser_company_id = company_id
    IN  (IF rapid_endorsements(cs, company_id, t) THEN 1 ELSE 0)
        + CountSeq(cv.employee_testimonials,
                   LAMBDA x : same_author_count(x) > SAME_AUTHOR_LIMIT)
        + CountSeq(cv.peer_endorsements, mutual)

\* The event detect_validation_fraud logs for rapid endorsements.
RapidEndorsementEvent(company_id, t) ==
    [event_id |-> t, event_type |-> "SuspiciousInput", principal |-> None,
     timestamp |-> t, severity |-> "Medium",
     details |-> <<"suspicious endorsement pattern", company_id>>]

\* A call of CommunityValidationManager::detect_validation_fraud
detect_validation_fraud_call(company_id) ==
    LET found == company_id \in DOMAIN companies
        patterns == IF found THEN detect_validation_fraud(companies, company_id, now) ELSE 0
        logged == IF found /\ rapid_endorsements(companies, company_id, now)
                  THEN log_security_event(Unlogged, "SuspiciousInput", None, "Medium",
                                          <<"suspicious endorsement pattern", company_id>>, now)
                  ELSE Unlogged
    IN  /\ events' = logged.events
        /\ alerts' = logged.alerts
        /\ last' = [op |-> "detect_validation_fraud", company_id |-> company_id,
                    result |-> IF found THEN "Ok" ELSE "ErrNotFound",
                    patterns |-> patterns,
                    rapid |-> found /\ rapid_endorsements(companies, company_id, now)]
        /\ NoRate
        /\ UNCHANGED <<now, companies, domain_challenges, crosschain_challenges, tasks,
                       proof_monitoring, inflight, consumed>>

\* A variant whose score is 100 whatever the validations are.
integrity_score_perfect(cs, company_id, t) == 100

\* integrity_score of CommunityValidationManager::validate_reputation_integrity
integrity_score(cs, company_id, t) ==
    LET cv == cs[company_id].community_validation
        low_reputation(endorsement) ==
            /\ endorsement.endorser_company_id \in DOMAIN cs
            /\ cs[endorsement.endorser_company_id].community_validation.reputation_score
                   < LOW_ENDORSER_REPUTATION
    IN  100 - CountSeq(cv.employee_testimonials, LAMBDA x : ~x.verified) * 5
            - CountSeq(cv.peer_endorsements, low_reputation) * 10
            - detect_validation_fraud(cs, company_id, t) * 15

\* is_valid of CommunityValidationManager::validate_reputation_integrity
validate_reputation_integrity(cs, company_id, t) ==
    integrity_score(cs, company_id, t) >= INTEGRITY_THRESHOLD

(***************************************************************************)
(* Requests the callers send                                               *)
(***************************************************************************)
FullBasicInfo ==
    [name |-> "Acme", description |-> "Registry member",
     website |-> <<"https://", "acme.io">>, focus_areas |-> <<"DeFi">>]
BareBasicInfo == [name |-> "Acme", description |-> "", website |-> <<>>, focus_areas |-> <<>>]
BlankBasicInfo == [BareBasicInfo EXCEPT !.name = " "]

\* domain_verified and social_verification_status are fields of the request:
\* the caller sends what it likes.
UnverifiedIdentity ==
    [github_org |-> None, domain_verified |-> FALSE,
     social_verification_status |-> "Pending", verification_proofs |-> <<>>]
SelfDeclaredIdentity ==
    [github_org |-> Some("acme"), domain_verified |-> TRUE,
     social_verification_status |-> "Verified", verification_proofs |-> <<>>]

NoPresence ==
    [ethereum_contracts |-> <<>>, bitcoin_addresses |-> <<>>, icp_canisters |-> <<>>,
     polygon_contracts |-> <<>>, solana_addresses |-> <<>>, sui_addresses |-> <<>>,
     ton_addresses |-> <<>>, treasury_wallets |-> <<>>, token_contracts |-> <<>>]
FullPresence ==
    [ethereum_contracts |-> <<"0xB2">>, bitcoin_addresses |-> <<"bc1">>,
     icp_canisters |-> <<"aaaaa-aa">>, polygon_contracts |-> <<>>,
     solana_addresses |-> <<"So1">>, sui_addresses |-> <<"0xS1">>, ton_addresses |-> <<"EQ1">>,
     treasury_wallets |-> <<[chain |-> "ethereum", address |-> "0xA1", verified |-> FALSE]>>,
     token_contracts |-> <<[chain |-> "ethereum", contract_address |-> "0xA1",
                            verified |-> FALSE]>>]

NoTeam == <<>>
VerifiedTeam == [i \in 1..5 |-> [verified |-> TRUE]]

FullRequest ==
    [basic_info |-> FullBasicInfo, web3_identity |-> SelfDeclaredIdentity,
     cross_chain_presence |-> FullPresence, team_members |-> VerifiedTeam]
PlainRequest ==
    [basic_info |-> FullBasicInfo, web3_identity |-> UnverifiedIdentity,
     cross_chain_presence |-> NoPresence, team_members |-> NoTeam]
BareRequest ==
    [basic_info |-> BareBasicInfo, web3_identity |-> UnverifiedIdentity,
     cross_chain_presence |-> NoPresence, team_members |-> NoTeam]
BlankRequest == [BareRequest EXCEPT !.basic_info = BlankBasicInfo]

UpgradeRequest ==
    [basic_info |-> Some(FullBasicInfo), web3_identity |-> Some(SelfDeclaredIdentity),
     cross_chain_presence |-> Some(FullPresence), team_members |-> Some(VerifiedTeam)]
ResetIdentityRequest ==
    [basic_info |-> None, web3_identity |-> Some(UnverifiedIdentity),
     cross_chain_presence |-> None, team_members |-> None]

\* Company ids are creation times: room for one more, or a re-creation at
\* the time of an existing one.
CanCreate(max) ==
    generate_company_id(now) \in DOMAIN companies \/ Cardinality(DOMAIN companies) < max

(***************************************************************************)
(* The challenge protocol: one company of p1, domain and Ethereum          *)
(* challenges, verification by either principal, the clock advancing by    *)
(* the lifetime of a domain challenge.                                     *)
(***************************************************************************)
ProofCount(c) == Len(companies[c].web3_identity.verification_proofs)

\* One more call, of at most max.
Call(max) == calls < max /\ calls' = calls + 1

ChalCall ==
    \/ /\ CanCreate(1)
       /\ create_company(PlainRequest, "p1")
    \/ \E c \in DOMAIN companies : create_domain_verification_challenge(c, "p1")
    \/ \E c \in DOMAIN companies, p \in Principals : verify_domain_ownership(c, p)
    \/ \E slot \in DOMAIN inflight, outcome \in DnsOutcomes :
          verify_domain_ownership_response(slot, outcome)
    \/ \E c \in DOMAIN companies :
          /\ Cardinality(DOMAIN crosschain_challenges) < MaxChallenges
          /\ create_crosschain_challenge(c, "ethereum", "0xA1", "p1")
    \/ \E c \in DOMAIN companies :
          /\ ProofCount(c) < MaxProofs
          /\ verify_ethereum_contract(c, "0xA1")
    \/ \E slot \in DOMAIN inflight, outcome \in EtherscanOutcomes :
          verify_ethereum_contract_response(slot, outcome)

\* At most one call is suspended on its outcall after the step.
OneSuspended == Cardinality(DOMAIN inflight') <= 1

ChalNext ==
    \/ Call(MaxChalCalls) /\ ChalCall /\ OneSuspended /\ UNCHANGED report_counts
    \/ /\ Tick({DOMAIN_CHALLENGE_TTL}, StartTime + MaxChalTicks * DOMAIN_CHALLENGE_TTL)
       /\ UNCHANGED <<calls, report_counts>>

SpecChal == Init /\ [][ChalNext]_vars

(***************************************************************************)
(* Concurrent verification: one company of p1 with one domain challenge    *)
(* and one Ethereum challenge stored at a time; up to MaxInflight verify   *)
(* calls are suspended on their outcalls together.                         *)
(***************************************************************************)
ConcurrentCall ==
    \/ /\ CanCreate(1)
       /\ companies = EmptyMap
       /\ create_company(PlainRequest, "p1")
    \/ \E c \in DOMAIN companies :
          /\ domain_challenges = EmptyMap
          /\ create_domain_verification_challenge(c, "p1")
    \/ \E c \in DOMAIN companies : verify_domain_ownership(c, "p1")
    \/ \E slot \in DOMAIN inflight, outcome \in DnsOutcomes :
          verify_domain_ownership_response(slot, outcome)
    \/ \E c \in DOMAIN companies :
          /\ crosschain_challenges = EmptyMap
          /\ create_crosschain_challenge(c, "ethereum", "0xA1", "p1")
    \/ \E c \in DOMAIN companies :
          /\ ProofCount(c) < MaxProofs
          /\ verify_ethereum_contract(c, "0xA1")
    \/ \E slot \in DOMAIN inflight, outcome \in EtherscanOutcomes :
          verify_ethereum_contract_response(slot, outcome)

ConcurrentNext == Call(MaxConcurrentCalls) /\ ConcurrentCall /\ UNCHANGED report_counts

SpecConcurrent == Init /\ [][ConcurrentNext]_vars

(***************************************************************************)
(* Challenge creation by the owner p1 and by another principal p2, the     *)
(* clock advancing by the window of the verification rate limit.           *)
(***************************************************************************)
AuthCall ==
    \/ /\ CanCreate(1)
       /\ create_company(PlainRequest, "p1")
    \/ \E c \in DOMAIN companies, p \in Principals : create_domain_verification_challenge(c, p)
    \/ \E c \in DOMAIN companies, p \in Principals :
          /\ Cardinality(DOMAIN crosschain_challenges) < MaxChallenges
          /\ create_crosschain_challenge(c, "ethereum", "0xA1", p)

AuthNext ==
    \/ Call(MaxAuthCalls) /\ AuthCall /\ UNCHANGED report_counts
    \/ /\ Tick({VERIFICATION_WINDOW}, StartTime + MaxAuthTicks * VERIFICATION_WINDOW)
       /\ UNCHANGED <<calls, report_counts>>

SpecAuth == Init /\ [][AuthNext]_vars

(***************************************************************************)
(* Proof monitoring: one company of p1 with social proofs, monitoring      *)
(* tasks scheduled by anyone, community reports by either principal,       *)
(* monitoring runs, the public proof check, the clock advancing by the     *)
(* delay of a proof check.                                                 *)
(***************************************************************************)
TweetUrl == <<"https://", "x.com", "/acme/status/", "1">>
DeletedTweetUrl == <<"https://", "x.com", "/acme/status/", "404">>

\* The ids of the proofs of company c, and one id no proof has.
ProofIds(c) ==
    {generate_proof_id(Proofs(companies[c])[i]) : i \in DOMAIN Proofs(companies[c])}
        \cup {ethereum_proof_id("0xA1", StartTime)}

ProofIdsOf(c) ==
    {generate_proof_id(Proofs(companies[c])[i]) : i \in DOMAIN Proofs(companies[c])}

MonCall ==
    \/ /\ companies = EmptyMap
       /\ \E request \in {FullRequest, BareRequest} : create_company(request, "p1")
    \/ \E c \in DOMAIN companies, url \in {TweetUrl, DeletedTweetUrl} :
          /\ ProofCount(c) < 1
          /\ verify_social_media_with_proof(c, "twitter", url, "p1")
    \/ \E c \in DOMAIN companies : \E id \in ProofIds(c) :
          schedule_proof_monitoring_call(c, id, "Low")
    \/ process_monitoring_tasks_call
    \/ heartbeat

MonNext ==
    \/ Call(MaxMonCalls) /\ MonCall /\ UNCHANGED report_counts
    \/ /\ Tick({PROOF_CHECK_DELAY}, StartTime + MaxMonTicks * PROOF_CHECK_DELAY)
       /\ UNCHANGED <<calls, report_counts>>

SpecMon == Init /\ [][MonNext]_vars

(***************************************************************************)
(* Community reports against the proofs of one company, with the proof     *)
(* checks they and the owner schedule.                                     *)
(***************************************************************************)
ReportCall ==
    \/ /\ companies = EmptyMap
       /\ \E request \in {FullRequest, BareRequest} : create_company(request, "p1")
       /\ UNCHANGED report_counts
    \/ /\ \E c \in DOMAIN companies, url \in {TweetUrl, DeletedTweetUrl} :
             /\ ProofCount(c) < MaxProofs
             /\ verify_social_media_with_proof(c, "twitter", url, "p1")
       /\ UNCHANGED report_counts
    \/ /\ \E c \in DOMAIN companies : \E id \in ProofIdsOf(c) :
             schedule_proof_monitoring_call(c, id, "Low")
       /\ UNCHANGED report_counts
    \/ \E c \in DOMAIN companies, p \in {"p1"} : \E id \in ProofIdsOf(c) :
          submit_community_report(c, id, "ProofDeleted", p)
    \/ /\ process_monitoring_tasks_call
       /\ UNCHANGED report_counts

ReportNext ==
    \/ Call(MaxReportCalls) /\ ReportCall
    \/ /\ Tick({PROOF_CHECK_DELAY}, StartTime + MaxReportTicks * PROOF_CHECK_DELAY)
       /\ UNCHANGED <<calls, report_counts>>

SpecReport == Init /\ [][ReportNext]_vars

(***************************************************************************)
(* The canister: every update entry point, the heartbeat, the delivery of  *)
(* every outcall response, and the clock.  p1 owns the companies; p2 is    *)
(* any other caller.                                                       *)
(***************************************************************************)
Endorsement == <<"reliable", "partner">>
StakeAmounts == {0, 300}

RegistryCall ==
    \/ /\ CanCreate(MaxCompanies)
       /\ \E request \in {FullRequest, BareRequest, BlankRequest} : create_company(request, "p1")
    \/ \E c \in DOMAIN companies, request \in {UpgradeRequest, ResetIdentityRequest},
          p \in Principals :
          update_company(c, request, p)

VerificationCall ==
    \/ \E c \in DOMAIN companies : create_domain_verification_challenge(c, "p1")
    \/ \E c \in DOMAIN companies : verify_domain_ownership(c, "p2")
    \/ \E slot \in DOMAIN inflight, outcome \in DnsOutcomes :
          verify_domain_ownership_response(slot, outcome)
    \/ \E c \in DOMAIN companies : verify_github_organization(c, "acme", "p1")
    \/ \E slot \in DOMAIN inflight, outcome \in GitHubOutcomes :
          verify_github_organization_response(slot, outcome)
    \/ \E c \in DOMAIN companies :
          /\ ProofCount(c) < MaxProofs
          /\ verify_social_media_with_proof(c, "twitter", DeletedTweetUrl, "p1")
    \/ \E c \in DOMAIN companies : verify_proof_still_exists(c, DeletedTweetUrl, "p2")
    \/ \E slot \in DOMAIN inflight, outcome \in ProofCheckOutcomes :
          verify_proof_still_exists_response(slot, outcome)

CrossChainCall ==
    \/ \E c \in DOMAIN companies, chain \in {"ethereum", "bitcoin", "icp"} :
          \E address \in WellFormedAddresses(chain) \ {"0xB2"} :
             /\ Cardinality(DOMAIN crosschain_challenges) < MaxChallenges
             /\ create_crosschain_challenge(c, chain, address, "p1")
    \/ \E c \in DOMAIN companies :
          /\ ProofCount(c) < MaxProofs
          /\ verify_ethereum_contract(c, "0xA1")
    \/ \E slot \in DOMAIN inflight, outcome \in EtherscanOutcomes :
          verify_ethereum_contract_response(slot, outcome)
    \/ \E c \in DOMAIN companies : verify_bitcoin_address(c, "bc1")
    \/ \E slot \in DOMAIN inflight, outcome \in BlockchainInfoOutcomes :
          verify_bitcoin_address_response(slot, outcome)
    \/ \E c \in DOMAIN companies : verify_icp_canister(c, "ryjl3-tyaaa-aaaaa-aaaba-cai")

Author == <<"alice">>
Role == <<"engineer">>

CommunityCall ==
    \/ \E c \in DOMAIN companies, e \in DOMAIN companies :
          add_endorsement(c, e, Endorsement, "p1")
    \/ \E c \in DOMAIN companies, e \in DOMAIN companies : remove_endorsement(c, e, "p1")
    \/ \E c \in DOMAIN companies : add_testimonial(c, Author, Role, Endorsement, "p2")
    \/ \E c \in DOMAIN companies, p \in Principals : remove_testimonial(c, Author, p)
    \/ \E c \in DOMAIN companies : verify_testimonial(c, Author, "p1")
    \/ \E c \in DOMAIN companies : flag_testimonial(c, Author, "p2")
    \/ \E c \in DOMAIN companies : add_vouch(c, Endorsement, "p2")
    \/ \E c \in DOMAIN companies : remove_vouch(c, "p2")
    \/ \E c \in DOMAIN companies, amount \in StakeAmounts : stake_reputation(c, amount, "p1")

MonitoringCall ==
    \/ \E c \in DOMAIN companies : \E id \in ProofIdsOf(c) :
          schedule_proof_monitoring_call(c, id, "Low")
    \/ process_monitoring_tasks_call
    \/ \E id \in DOMAIN alerts : acknowledge_alert(id)

Next ==
    \/ /\ Call(MaxCalls)
       /\ \/ RegistryCall
          \/ VerificationCall
          \/ CrossChainCall
          \/ CommunityCall
          \/ MonitoringCall
       /\ OneSuspended
       /\ UNCHANGED report_counts
    \/ /\ Call(MaxCalls)
       /\ \E c \in DOMAIN companies : \E id \in ProofIdsOf(c) :
             submit_community_report(c, id, "ProofDeleted", "p2")
    \/ /\ heartbeat
       /\ UNCHANGED <<calls, report_counts>>
    \/ /\ Tick({PROOF_CHECK_DELAY}, StartTime + MaxTicks * PROOF_CHECK_DELAY)
       /\ UNCHANGED <<calls, report_counts>>

Spec == Init /\ [][Next]_vars

(***************************************************************************)
(* Staking: p1 registers one company a second; once they are registered,   *)
(* the companies endorse the first one and are endorsed by it, and p1      *)
(* stakes reputation on the first one.                                     *)
(***************************************************************************)
HubCompany == generate_company_id(StartTime)

StakeCall ==
    \/ /\ CanCreate(MaxStakeCompanies)
       /\ generate_company_id(now) \notin DOMAIN companies
       /\ create_company(BareRequest, "p1")
    \/ \E c \in DOMAIN companies, e \in DOMAIN companies :
          /\ Cardinality(DOMAIN companies) = MaxStakeCompanies
          /\ HubCompany \in {c, e}
          /\ add_endorsement(c, e, Endorsement, "p1")
    \/ /\ HubCompany \in DOMAIN companies
       /\ stake_reputation(HubCompany, 300, "p1")

StakeNext ==
    \/ Call(MaxStakeCalls) /\ StakeCall /\ UNCHANGED report_counts
    \/ /\ generate_company_id(now) \in DOMAIN companies
       /\ Tick({1}, StartTime + MaxStakeTicks)
       /\ UNCHANGED <<calls, report_counts>>

SpecStake == Init /\ [][StakeNext]_vars

(***************************************************************************)
(* Fraud detection: p1 registers one company a second; once they are       *)
(* registered, the other companies endorse the first one in turn, the      *)
(* first one endorses the second, one author's testimonials are added to   *)
(* the first companies in turn, and the fraud detection is run on the      *)
(* first company; the clock then advances by an hour.                      *)
(***************************************************************************)
SecondCompany == generate_company_id(StartTime + 1)

HasTestimonial(c) == companies[c].community_validation.employee_testimonials # <<>>

Endorses(e, c) ==
    \E i \in DOMAIN companies[c].community_validation.peer_endorsements :
       companies[c].community_validation.peer_endorsements[i].endorser_company_id = e

FraudCall ==
    \/ /\ CanCreate(MaxFraudCompanies)
       /\ generate_company_id(now) \notin DOMAIN companies
       /\ create_company(BareRequest, "p1")
    \/ \E c \in DOMAIN companies, e \in DOMAIN companies :
          /\ Cardinality(DOMAIN companies) = MaxFraudCompanies
          /\ c = HubCompany \/ (e = HubCompany /\ c = SecondCompany)
          /\ c # e
          /\ ~Endorses(e, c)
          /\ \A d \in DOMAIN companies : (c = HubCompany /\ HubCompany < d /\ d < e) => Endorses(d, c)
          /\ add_endorsement(c, e, Endorsement, "p1")
    \/ \E c \in DOMAIN companies :
          /\ Cardinality(DOMAIN companies) = MaxFraudCompanies
          /\ c < HubCompany + MaxFraudAuthored
          /\ ~HasTestimonial(c)
          /\ \A d \in DOMAIN companies : d < c => HasTestimonial(d)
          /\ add_testimonial(c, Author, Role, Endorsement, "p2")
    \/ /\ HubCompany \in DOMAIN companies
       /\ detect_validation_fraud_call(HubCompany)

FraudNext ==
    \/ Call(MaxFraudCalls) /\ FraudCall /\ UNCHANGED report_counts
    \/ /\ generate_company_id(now) \in DOMAIN companies
       /\ Tick({1}, StartTime + MaxFraudCompanies - 1)
       /\ UNCHANGED <<calls, report_counts>>
    \/ /\ Cardinality(DOMAIN companies) = MaxFraudCompanies
       /\ Tick({ONE_HOUR}, StartTime + MaxFraudCompanies - 1 + MaxFraudHours * ONE_HOUR)
       /\ UNCHANGED <<calls, report_counts>>

SpecFraud == Init /\ [][FraudNext]_vars

(***************************************************************************)
(* Alerts: p1 registers two companies, a second apart, and sends           *)
(* endorsements between them, some with script content; any caller         *)
(* acknowledges alerts; the monitoring tasks are processed.                *)
(***************************************************************************)
ScriptEndorsement == <<"<script>", "alert(1)">>

AlertCall ==
    \/ /\ CanCreate(MaxAlertCompanies)
       /\ generate_company_id(now) \notin DOMAIN companies
       /\ create_company(BareRequest, "p1")
    \/ \E c \in DOMAIN companies, e \in DOMAIN companies,
          message \in {Endorsement, ScriptEndorsement} :
          /\ c # e
          /\ add_endorsement(c, e, message, "p1")
    \/ \E id \in DOMAIN alerts \cup {StartTime} : acknowledge_alert(id)

AlertNext ==
    \/ Call(MaxAlertCalls) /\ AlertCall /\ UNCHANGED report_counts
    \/ /\ Tick({1}, StartTime + MaxAlertTicks)
       /\ UNCHANGED <<calls, report_counts>>

SpecAlert == Init /\ [][AlertNext]_vars

(***************************************************************************)
(* Monitoring under the scheduling of the canister: the heartbeat runs in  *)
(* every round, so the clock passes a round only once the heartbeat has    *)
(* run in it, and the heartbeat and the clock are never starved.  Tasks    *)
(* are enqueued during the first rounds only, so that the horizon of the   *)
(* clock lies beyond the last retry of every task.                         *)
(***************************************************************************)
FairCall ==
    \/ /\ companies = EmptyMap
       /\ create_company(BareRequest, "p1")
    \/ \E c \in DOMAIN companies, url \in {TweetUrl, DeletedTweetUrl} :
          /\ ProofCount(c) < 1
          /\ verify_social_media_with_proof(c, "twitter", url, "p1")
    \/ \E c \in DOMAIN companies : \E id \in ProofIds(c) :
          /\ now < StartTime + MaxFairEnqueueTicks * PROOF_CHECK_DELAY
          /\ schedule_proof_monitoring_call(c, id, "Low")
    \/ process_monitoring_tasks_call

HeartbeatDone == last.op = "heartbeat" /\ last.at = now

FairTick ==
    /\ HeartbeatDone
    /\ Tick({PROOF_CHECK_DELAY}, StartTime + MaxFairTicks * PROOF_CHECK_DELAY)
    /\ UNCHANGED <<calls, report_counts>>

FairHeartbeat == heartbeat /\ UNCHANGED <<calls, report_counts>>

FairNext ==
    \/ Call(MaxFairCalls) /\ FairCall /\ UNCHANGED report_counts
    \/ FairHeartbeat
    \/ FairTick

\* The heartbeat has run in the current round again and again; the clock
\* advances whenever it may.
SpecMonFair == Init /\ [][FairNext]_vars /\ []<>HeartbeatDone /\ WF_vars(FairTick)

(***************************************************************************)
(* Community validation: p1 registers two companies, a second apart; then  *)
(* endorsements, testimonials, vouches and stakes are added and removed.   *)
(***************************************************************************)
CommunityMutation ==
    \/ \E c \in DOMAIN companies, e \in DOMAIN companies :
          /\ c # e
          /\ add_endorsement(c, e, Endorsement, "p1")
    \/ \E c \in DOMAIN companies, e \in DOMAIN companies :
          /\ c # e
          /\ remove_endorsement(c, e, "p1")
    \/ \E c \in DOMAIN companies : add_testimonial(c, Author, Role, Endorsement, "p2")
    \/ \E c \in DOMAIN companies : remove_testimonial(c, Author, "p1")
    \/ \E c \in DOMAIN companies : verify_testimonial(c, Author, "p1")
    \/ \E c \in DOMAIN companies : flag_testimonial(c, Author, "p2")
    \/ \E c \in DOMAIN companies, p \in Principals : add_vouch(c, Endorsement, p)
    \/ \E c \in DOMAIN companies, p \in Principals : remove_vouch(c, p)
    \/ \E c \in DOMAIN companies : stake_reputation(c, 300, "p1")

CommunityRegistration ==
    /\ CanCreate(MaxCommunityCompanies)
    /\ generate_company_id(now) \notin DOMAIN companies
    /\ \E request \in {FullRequest, BareRequest} : create_company(request, "p1")

CommunityNext ==
    \/ Call(MaxCommunityCalls) /\ CommunityRegistration /\ UNCHANGED report_counts
    \/ /\ Cardinality(DOMAIN companies) = MaxCommunityCompanies
       /\ Call(MaxCommunityCalls) /\ CommunityMutation /\ UNCHANGED report_counts
    \/ /\ generate_company_id(now) \in DOMAIN companies
       /\ Tick({1}, StartTime + MaxCommunityTicks)
       /\ UNCHANGED <<calls, report_counts>>

SpecCommunity == Init /\ [][CommunityNext]_vars

(***************************************************************************)
(* Claims                                                                  *)
(***************************************************************************)

\* C4: for one identity that calls one action class only (limit N per window W),
\* a call is admitted exactly when fewer than N admitted calls were made less
\* than W before it: N calls within W are admitted, the (N+1)th is refused, and
\* a call made once W has elapsed since the admitted calls is admitted again.
C4_SlidingWindowLimit ==
    (last.op = "rate_limit" /\ last.single_class) =>
        LET N == ClassLimit(last.class)
            W == ClassWindow(last.class)
            recent == CountSeq(last.log_before, LAMBDA ts : ts + W > last.at)
        IN  last.allowed <=> recent < N

\* The (N+1)th call within the window was refused.
C4_Witness ==
    /\ last.op = "rate_limit"
    /\ last.single_class
    /\ ~last.allowed
    /\ Len(last.log_before) >= ClassLimit(last.class)

\* C5: action classes are tracked independently: whether a call is admitted
\* is what a limiter fed the calls of that class alone would decide.
C5_ClassesIndependent ==
    last.op = "rate_limit" => last.allowed = last.alone_allowed

VerifyOps == {"verify_domain_ownership", "verify_ethereum_contract"}

\* C2: a verify call made for an (entity, target) whose challenge an earlier
\* verify call has accepted, with no create-challenge call for that pair in
\* between, returns the not-found error and leaves the entity as it was.
C2_ConsumedChallengeNotFound ==
    (last.op \in VerifyOps /\ last.was_consumed) =>
        (last.result = "ErrNotFound" /\ last.entity_unchanged)

\* A verify call that looks up a stored challenge after its expires_at.
VerifyOfExpired ==
    /\ last.op \in VerifyOps
    /\ last.phase = "call"
    /\ is_some(last.looked_up)
    /\ last.at > last.looked_up[1].expires_at

\* C3 as stated: every verify call for a stored challenge made after its
\* expires_at returns the expiry error and the challenge is no longer stored.
C3_ExpiredAlwaysRejected ==
    VerifyOfExpired => (last.result = "ErrExpired" /\ ~last.challenge_stored_after)

\* C3 amended: a verify call for a stored challenge made after its expires_at
\* returns the expiry error and removes the challenge whenever the call is
\* admitted by the rate limiter; a domain verify call refused by the limiter
\* returns the rate-limit error and the expired challenge stays stored.
C3_ExpiredRejectedWhenAdmitted ==
    VerifyOfExpired =>
        IF last.admitted
        THEN last.result = "ErrExpired" /\ ~last.challenge_stored_after
        ELSE last.result = "ErrRateLimit" /\ last.challenge_stored_after

\* A principal that does not own the entity calls verify after expiry and
\* gets the expiry error.
C3_Witness ==
    /\ VerifyOfExpired
    /\ last.admitted
    /\ last.result = "ErrExpired"
    /\ last.caller = "p2"

ProcessOps == {"process_monitoring_tasks", "heartbeat"}

NoneDue(ts, t) == \A id \in DOMAIN ts : ~(ts[id].scheduled_at <= t)

\* C6: a run of process_monitoring_tasks at a time when no queued task has
\* scheduled_at <= now completes no task and leaves the companies, the task
\* queue, the alerts and the event log as they were.
C6_NoDueTaskNoEffect ==
    (last.op \in ProcessOps /\ NoneDue(last.tasks_before, last.at)) =>
        /\ last.processed = <<>>
        /\ last.executions = <<>>
        /\ last.entities_unchanged
        /\ last.tasks_unchanged
        /\ last.alerts_unchanged
        /\ last.events_unchanged

\* A run found tasks in the queue, none of them due.
C6_Witness ==
    /\ last.op = "process_monitoring_tasks"
    /\ last.tasks_before # EmptyMap
    /\ NoneDue(last.tasks_before, last.at)
    /\ last.tasks_unchanged

FailedExecutions ==
    IF last.op \in ProcessOps
    THEN {last.executions[i] : i \in {j \in DOMAIN last.executions : ~last.executions[j].ok}}
    ELSE {}

\* C7: every failed execution of a due task adds exactly 1 to its retry_count;
\* the task stays queued with the new count while that count is below
\* max_retries and leaves the queue at the execution that makes the count
\* equal to max_retries, so no queued task ever has retry_count >= max_retries.
C7_RetryUntilMaxRetries ==
    /\ \A e \in FailedExecutions :
          LET retry_count == e.task.retry_count + 1
          IN  /\ retry_count <= e.task.max_retries
              /\ IF retry_count = e.task.max_retries
                 THEN e.queued_after = None
                 ELSE /\ is_some(e.queued_after)
                      /\ e.queued_after[1].retry_count = retry_count
    /\ \A id \in DOMAIN tasks : tasks[id].retry_count < tasks[id].max_retries

\* A ProofCheck task failed for the third time and left the queue.
C7_Witness ==
    \E e \in FailedExecutions :
        /\ e.task.task_type = "ProofCheck"
        /\ e.task.retry_count = 2
        /\ e.task.max_retries = 3
        /\ e.queued_after = None

ReputationExecutions ==
    IF last.op \in ProcessOps
    THEN {last.executions[i] :
            i \in {j \in DOMAIN last.executions :
                     /\ last.executions[j].task.task_type = "ReputationUpdate"
                     /\ is_some(last.executions[j].company_before)}}
    ELSE {}

RemovedCount(company) == CountSeq(Proofs(company), LAMBDA q : q.status = "Removed")
DisputedCount(company) == CountSeq(Proofs(company), LAMBDA q : q.status = "Disputed")

\* C8: a ReputationUpdate execution lowers the verification_score of its company
\* by 20 for each Removed proof and 10 for each Disputed proof, not below 0, and
\* sets the status Flagged exactly when the new score is below 30 (the status is
\* left as it was otherwise).
C8_ReputationPenalty ==
    \A e \in ReputationExecutions :
        LET before == e.company_before[1]
            after == e.company_after[1]
            penalty == 20 * RemovedCount(before) + 10 * DisputedCount(before)
            score == IF before.verification_score > penalty
                     THEN before.verification_score - penalty ELSE 0
        IN  /\ e.ok
            /\ after.verification_score = score
            /\ after.status = IF score < 30 THEN "Flagged" ELSE before.status

\* A company with one Removed and one Disputed proof lost exactly 30 points.
C8_Witness ==
    \E e \in ReputationExecutions :
        /\ RemovedCount(e.company_before[1]) = 1
        /\ DisputedCount(e.company_before[1]) = 1
        /\ e.company_before[1].verification_score >= 30
        /\ e.company_after[1].verification_score = e.company_before[1].verification_score - 30

\* C9: the third admitted report against one existing proof of a company leaves
\* the proof Disputed and a Critical ProofCheck task for it in the queue.
C9_ThirdReportDisputes ==
    (/\ last.op = "submit_community_report"
     /\ last.admitted
     /\ is_some(last.status_before)
     /\ last.admitted_count = 3) =>
        /\ last.status_after = Some("Disputed")
        /\ last.critical_task_after

\* C10: a proof that is Removed stays Removed.
C10_RemovedIsFinal ==
    [][\A c \in DOMAIN companies : \A i \in DOMAIN Proofs(companies[c]) :
          Proofs(companies[c])[i].status = "Removed" =>
              /\ c \in DOMAIN companies'
              /\ i \in DOMAIN Proofs(companies'[c])
              /\ Proofs(companies'[c])[i].status = "Removed"]_vars

\* C1: whatever operations have run, the verification_score of every stored
\* company is within 0..100.
C1_ScoreWithinBounds ==
    \A c \in DOMAIN companies : companies[c].verification_score \in 0..100

\* A stored company whose score components add up to more than 100 has the
\* score 100.
C1_Witness ==
    \E c \in DOMAIN companies :
        /\ RawScore(companies[c]) > 100
        /\ companies[c].verification_score = 100

\* C11: a proof appended to a company stays in the proof list of that company
\* in every later state, whatever operation runs.
C11_ProofsNeverDeleted ==
    [][\A c \in DOMAIN companies : \A i \in DOMAIN Proofs(companies[c]) :
          /\ c \in DOMAIN companies'
          /\ \E j \in DOMAIN Proofs(companies'[c]) :
                generate_proof_id(Proofs(companies'[c])[j])
                    = generate_proof_id(Proofs(companies[c])[i])]_vars

\* The inputs of the verification score and of the reputation score.
VerificationInputs(company) ==
    <<company.web3_identity.github_org, company.web3_identity.domain_verified,
      company.web3_identity.social_verification_status, company.cross_chain_presence,
      company.team_members, company.community_validation.reputation_score>>

ReputationInputs(company) ==
    <<company.verification_score, company.community_validation.peer_endorsements,
      company.community_validation.employee_testimonials,
      company.community_validation.community_vouches,
      company.community_validation.reputation_staked>>

ReputationOf(company) == update_reputation_score(company).community_validation.reputation_score

\* C12: a step that changes an input of the verification score of a company
\* leaves verification_score equal to calculate_verification_score of the new
\* company, and a step that changes an input of the reputation score leaves
\* reputation_score equal to the reputation function of the new company.
C12_ScoresRecomputed ==
    [][\A c \in DOMAIN companies \cap DOMAIN companies' :
          /\ VerificationInputs(companies[c]) # VerificationInputs(companies'[c]) =>
                companies'[c].verification_score = calculate_verification_score(companies'[c])
          /\ ReputationInputs(companies[c]) # ReputationInputs(companies'[c]) =>
                companies'[c].community_validation.reputation_score
                    = ReputationOf(companies'[c])]_vars

\* C13: at most one challenge is stored for a (company, target): one domain
\* challenge per company, and one cross-chain challenge per (company, chain,
\* address), a later creation replacing the earlier challenge.
C13_OneChallengePerTarget ==
    /\ \A c \in DOMAIN domain_challenges : domain_challenges[c].company_id = c
    /\ \A k1, k2 \in DOMAIN crosschain_challenges :
          (/\ crosschain_challenges[k1].company_id = crosschain_challenges[k2].company_id
           /\ crosschain_challenges[k1].chain_type = crosschain_challenges[k2].chain_type
           /\ crosschain_challenges[k1].address_or_contract
                  = crosschain_challenges[k2].address_or_contract) => k1 = k2

\* The verify operations that wait for external evidence, and the responses in
\* which the check completed without the challenge secret in the evidence.
EvidenceVerifyOps ==
    {"verify_domain_ownership", "verify_ethereum_contract", "verify_bitcoin_address"}

SecretAbsentOutcomes == {"token_absent", "message_absent", "no_transactions", "has_transactions"}

IncompleteOutcomes == {"transport_error", "bad_status"}

\* C14: when the external check completes and the evidence does not hold the
\* challenge secret, verify returns the non-error not-verified result and the
\* step changes neither the stored challenges nor any company.
C14_AbsentSecretNotVerified ==
    [][(/\ last'.op \in EvidenceVerifyOps
        /\ last'.phase = "response"
        /\ last'.outcome \in SecretAbsentOutcomes) =>
           /\ last'.result = "NotVerified"
           /\ domain_challenges' = domain_challenges
           /\ crosschain_challenges' = crosschain_challenges
           /\ companies' = companies]_vars

\* C15: when the external check does not complete (transport failure or a
\* status other than 200), verify returns an error, which is not the
\* not-verified result, and the step changes neither the stored challenges nor
\* any company.
C15_IncompleteCheckIsError ==
    [][(/\ last'.op \in EvidenceVerifyOps
        /\ last'.phase = "response"
        /\ last'.outcome \in IncompleteOutcomes) =>
           /\ last'.result \in {"ErrRequestFailed", "ErrStatus"}
           /\ domain_challenges' = domain_challenges
           /\ crosschain_challenges' = crosschain_challenges
           /\ companies' = companies]_vars

\* A verify call whose outcall failed returned the error and the challenge it
\* had looked up is still stored.
C15_Witness ==
    /\ last.op \in EvidenceVerifyOps
    /\ last.phase = "response"
    /\ last.outcome = "transport_error"
    /\ last.result = "ErrRequestFailed"
    /\ last.challenge_stored_after
    /\ last.entity_unchanged

CreateChallengeOps == {"create_domain_verification_challenge", "create_crosschain_challenge"}

\* A create-challenge step made by a caller who did not create the company.
CreateByStranger ==
    /\ last'.op \in CreateChallengeOps
    /\ last'.company_id \in DOMAIN companies
    /\ companies[last'.company_id].created_by # last'.caller

\* C16 as stated: a create-challenge call by a caller other than the creator of
\* the company returns the authorization error, stores no challenge and
\* changes no company.
C16_StrangerGetsAuthorizationError ==
    [][CreateByStranger =>
           /\ last'.result = "ErrUnauthorized"
           /\ domain_challenges' = domain_challenges
           /\ crosschain_challenges' = crosschain_challenges
           /\ companies' = companies]_vars

\* C16 amended: such a call stores no challenge and changes no company, and
\* it returns the authorization error unless it is a cross-chain creation that
\* the verification rate limit refuses, which returns the rate-limit error.
C16_StrangerStoresNoChallenge ==
    [][CreateByStranger =>
           /\ last'.result =
                  IF /\ last'.op = "create_crosschain_challenge"
                     /\ ~check_verification_rate_limit(rate_limits, last'.caller, now).allowed
                  THEN "ErrRateLimit" ELSE "ErrUnauthorized"
           /\ domain_challenges' = domain_challenges
           /\ crosschain_challenges' = crosschain_challenges
           /\ companies' = companies]_vars

\* p2 asked for a challenge for the company of p1 and got the authorization
\* error.
C16_Witness ==
    /\ last.op \in CreateChallengeOps
    /\ last.caller = "p2"
    /\ last.company_id \in DOMAIN companies
    /\ companies[last.company_id].created_by = "p1"
    /\ last.result = "ErrUnauthorized"

\* C17: no stake operation increases a company's reputation_staked while the
\* integrity score of that company is below 50.
C17_LowIntegrityBlocksStaking ==
    [][\A c \in DOMAIN companies \cap DOMAIN companies' :
          (/\ last'.op = "stake_reputation"
           /\ companies'[c].community_validation.reputation_staked
                  > companies[c].community_validation.reputation_staked)
              => validate_reputation_integrity(companies, c, now)]_vars

\* The executions of the last monitoring run in which a ProofCheck task found
\* the reference of its proof missing, each with the proof as it was read.
MissingProofExecutions ==
    IF last.op \in ProcessOps
    THEN {x \in {[company_id |-> last.executions[i].task.target_company_id,
                  proof |-> LET e == last.executions[i]
                                j == IF is_some(e.company_before) /\ is_some(e.task.target_proof_id)
                                     THEN FirstIndex(Proofs(e.company_before[1]),
                                              LAMBDA q : generate_proof_id(q)
                                                             = e.task.target_proof_id[1])
                                     ELSE 0
                            IN  IF e.task.task_type = "ProofCheck" /\ j > 0
                                THEN Some(Proofs(e.company_before[1])[j]) ELSE None] :
                 i \in DOMAIN last.executions} :
             /\ is_some(x.proof)
             /\ ~simulate_url_check(x.proof[1].proof_url)}
    ELSE {}

\* C18: after a run in which a due ProofCheck task found the reference of its
\* proof missing, the proof is Removed, a high-severity tamper event is in the
\* event log, an alert for the company with the reference of the proof as
\* evidence is in the alert store, and a ReputationUpdate task for the company
\* is queued.
C18_MissingProofRecorded ==
    \A x \in MissingProofExecutions :
        /\ x.company_id \in DOMAIN companies
        /\ \E j \in DOMAIN Proofs(companies[x.company_id]) :
              /\ generate_proof_id(Proofs(companies[x.company_id])[j]) = generate_proof_id(x.proof[1])
              /\ Proofs(companies[x.company_id])[j].status = "Removed"
        /\ \E id \in DOMAIN events :
              events[id].event_type = "ProofTampering" /\ events[id].severity = "High"
        /\ \E id \in DOMAIN alerts :
              /\ alerts[id].company_id = x.company_id
              /\ alerts[id].evidence = <<x.proof[1].proof_url>>
        /\ \E id \in DOMAIN tasks :
              /\ tasks[id].task_type = "ReputationUpdate"
              /\ tasks[id].target_company_id = x.company_id

\* Some proof of some company goes from another status to Removed in the step.
ProofBecomesRemoved ==
    \E c \in DOMAIN companies \cap DOMAIN companies' :
        \E i \in DOMAIN Proofs(companies[c]) \cap DOMAIN Proofs(companies'[c]) :
            /\ Proofs(companies[c])[i].status # "Removed"
            /\ Proofs(companies'[c])[i].status = "Removed"
            /\ generate_proof_id(Proofs(companies'[c])[i]) = generate_proof_id(Proofs(companies[c])[i])

\* C19: every step in which a proof becomes Removed records a security event,
\* and no step removes or replaces an event of the event log.
C19_RemovalNeverSilent ==
    [][/\ ProofBecomesRemoved =>
              \E id \in DOMAIN events' : id \notin DOMAIN events \/ events'[id] # events[id]
       /\ \A id \in DOMAIN events : id \in DOMAIN events' /\ events'[id] = events[id]]_vars

\* The fields of an alert other than the acknowledged flag.
AlertContent(alert) ==
    <<alert.company_id, alert.alert_type, alert.message, alert.evidence, alert.created_at,
      alert.severity>>

\* C20: a stored alert is never removed, and its company_id, alert_type,
\* message, evidence, created_at and severity never change.
C20_AlertsImmutable ==
    [][\A id \in DOMAIN alerts :
          /\ id \in DOMAIN alerts'
          /\ AlertContent(alerts'[id]) = AlertContent(alerts[id])]_vars

CommunityOps ==
    {"add_endorsement", "remove_endorsement", "add_testimonial", "remove_testimonial",
     "verify_testimonial", "add_vouch", "remove_vouch", "stake_reputation"}

RECURSIVE TotalWeight(_, _)
TotalWeight(vouches, i) ==
    IF i > Len(vouches) THEN 0 ELSE vouches[i].weight + TotalWeight(vouches, i + 1)

\* The reputation of a company by the stated formula.
StatedReputation(company) ==
    LET cv == company.community_validation
    IN  (company.verification_score \div 4)
        + 10 * Len(cv.peer_endorsements)
        + 5 * Cardinality({i \in DOMAIN cv.employee_testimonials :
                              cv.employee_testimonials[i].verified})
        + 2 * Cardinality({i \in DOMAIN cv.employee_testimonials :
                              ~cv.employee_testimonials[i].verified})
        + 3 * TotalWeight(cv.community_vouches, 1)
        + (IF cv.reputation_staked > 0 THEN 2 * CeilLog10(cv.reputation_staked) ELSE 0)

\* C21: after every community mutation the stored reputation_score of the
\* company equals verification_score/4 + 10 per endorsement + 5 per verified
\* testimonial + 2 per unverified testimonial + 3 x weight per vouch + the
\* staking bonus, and each added endorsement raises the stored score by
\* exactly 10.
C21_ReputationAfterMutation ==
    [][(last'.op \in CommunityOps /\ last'.result = "Ok") =>
          /\ companies'[last'.company_id].community_validation.reputation_score
                 = StatedReputation(companies'[last'.company_id])
          /\ last'.op = "add_endorsement" =>
                 companies'[last'.company_id].community_validation.reputation_score
                     = companies[last'.company_id].community_validation.reputation_score + 10]_vars

\* The status of the stated bands: 0-20 Pending, 21-50 Verified, 51 and above
\* Trusted.
StatedBand(score) ==
    CASE score \in 0..20 -> "Pending"
      [] score \in 21..50 -> "Verified"
      [] score >= 51 -> "Trusted"

\* Company c was the target of a ReputationUpdate task that the run executed.
ReputationUpdated(run, c) ==
    \E i \in DOMAIN run.executions :
        /\ run.executions[i].ok
        /\ run.executions[i].task.task_type = "ReputationUpdate"
        /\ run.executions[i].task.target_company_id = c

\* C22: a community mutation leaves the company in the band of its reputation
\* score (Pending, Verified or Trusted), no company is ever Suspended, and a
\* company becomes Flagged only in a monitoring run that executed a
\* ReputationUpdate task for it and left its verification score below 30.
C22_StatusBands ==
    [][/\ (last'.op \in CommunityOps \cup {"flag_testimonial"} /\ last'.result = "Ok") =>
              companies'[last'.company_id].status
                  = StatedBand(companies'[last'.company_id].community_validation.reputation_score)
       /\ \A c \in DOMAIN companies' :
              /\ companies'[c].status # "Suspended"
              /\ (/\ companies'[c].status = "Flagged"
                  /\ c \in DOMAIN companies => companies[c].status # "Flagged")
                     => /\ last'.op \in ProcessOps
                        /\ ReputationUpdated(last', c)
                        /\ companies'[c].verification_score < 30]_vars

\* A ReputationUpdate task flagged a company that was not flagged.
C22_Witness ==
    /\ last.op \in ProcessOps
    /\ \E i \in DOMAIN last.executions :
          LET e == last.executions[i]
          IN  /\ e.ok
              /\ e.task.task_type = "ReputationUpdate"
              /\ e.company_before[1].status # "Flagged"
              /\ e.company_after[1].status = "Flagged"
              /\ e.company_after[1].verification_score < 30

ChallengeVerifyOps ==
    {"verify_domain_ownership", "verify_ethereum_contract", "verify_bitcoin_address",
     "verify_icp_canister"}

\* The step is the successful end of a challenge verification.
ChallengeAccepted == last'.op \in ChallengeVerifyOps /\ last'.result = "Ok"

\* The step stores one more proof, Active, at the end of the proofs of the
\* company of the call.
ActiveProofAppended ==
    LET c == last'.company_id
    IN  /\ c \in DOMAIN companies \cap DOMAIN companies'
        /\ Len(Proofs(companies'[c])) = Len(Proofs(companies[c])) + 1
        /\ SubSeq(Proofs(companies'[c]), 1, Len(Proofs(companies[c]))) = Proofs(companies[c])
        /\ Proofs(companies'[c])[Len(Proofs(companies'[c]))].status = "Active"

\* The step deletes the challenge that the call looked up.
ChallengeDeleted ==
    IF last'.op = "verify_domain_ownership"
    THEN /\ last'.company_id \in DOMAIN domain_challenges
         /\ last'.company_id \notin DOMAIN domain_challenges'
    ELSE \E k \in DOMAIN crosschain_challenges :
            /\ crosschain_challenges[k] = last'.looked_up[1]
            /\ crosschain_challenges' = Remove(crosschain_challenges, k)

\* C23: every successful challenge verification (domain, Ethereum, Bitcoin,
\* ICP) appends an Active proof to the company and deletes the challenge it
\* consumed, in the same step.
C23_AcceptanceAppendsProof ==
    [][ChallengeAccepted => ActiveProofAppended /\ ChallengeDeleted]_vars

\* C24: no verify call returns success or changes a company at a time later
\* than the expires_at of its challenge, the clock being free to advance while
\* the call is suspended on its external check.
C24_NoAcceptanceAfterExpiry ==
    [][(/\ last'.op \in ChallengeVerifyOps
        /\ is_some(last'.looked_up)
        /\ last'.result = "Ok" \/ companies' # companies)
           => now' <= last'.looked_up[1].expires_at]_vars

\* The ids a task can have: the times of the rounds.
FairTaskIds == {StartTime + k * PROOF_CHECK_DELAY : k \in 0..MaxFairTicks}

\* C25: with the heartbeat running in every round and the clock advancing,
\* every task that is in the queue is eventually out of the queue.
C25_EveryTaskLeavesQueue ==
    \A id \in FairTaskIds : (id \in DOMAIN tasks) ~> (id \notin DOMAIN tasks)

\* A ProofCheck task failed for the last time and left the queue, and the
\* queue is empty.
C25_Witness ==
    /\ tasks = EmptyMap
    /\ \E e \in FailedExecutions :
          /\ e.task.task_type = "ProofCheck"
          /\ e.task.retry_count + 1 = e.task.max_retries
          /\ e.queued_after = None

\* C26: the tasks of one run are executed in nondecreasing order of
\* scheduled_at.
C26_DrainedByDueTime ==
    last.op \in ProcessOps =>
        \A i, j \in DOMAIN last.executions :
            i < j => last.executions[i].task.scheduled_at <= last.executions[j].task.scheduled_at

\* C27: a run at time now executes every task with scheduled_at <= now, and
\* every task with scheduled_at > now is not executed and stays queued
\* unchanged.
C27_DueExecutedOthersKept ==
    last.op \in ProcessOps =>
        \A id \in DOMAIN last.tasks_before :
            LET task == last.tasks_before[id]
                executed == \E i \in DOMAIN last.executions : last.executions[i].task = task
            IN  IF task.scheduled_at <= last.at
                THEN executed
                ELSE /\ ~executed
                     /\ id \in DOMAIN tasks
                     /\ tasks[id] = task

EntityVerifyOps ==
    ChallengeVerifyOps \cup {"verify_github_organization", "verify_proof_still_exists",
                             "verify_social_media_with_proof"}

\* Every proof of the company as stored before the step is still there,
\* changed in nothing but its status.
ProofsKept(before, after) ==
    /\ Len(Proofs(before)) <= Len(Proofs(after))
    /\ \A i \in DOMAIN Proofs(before) :
          [Proofs(after)[i] EXCEPT !.status = Proofs(before)[i].status] = Proofs(before)[i]

\* What the community actions and the monitoring runs have written is what
\* the verification step leaves in the company.
VerifyKeepsOthers(before, after) ==
    /\ after.community_validation = before.community_validation
    /\ after.status = before.status
    /\ after.basic_info = before.basic_info
    /\ ProofsKept(before, after)
    /\ before.web3_identity.domain_verified => after.web3_identity.domain_verified
    /\ is_some(before.web3_identity.github_org) => is_some(after.web3_identity.github_org)
    /\ Range(before.cross_chain_presence.ethereum_contracts)
          \subseteq Range(after.cross_chain_presence.ethereum_contracts)
    /\ Range(before.cross_chain_presence.bitcoin_addresses)
          \subseteq Range(after.cross_chain_presence.bitcoin_addresses)
    /\ Range(before.cross_chain_presence.icp_canisters)
          \subseteq Range(after.cross_chain_presence.icp_canisters)

\* What the verifications and the community actions have written is what a
\* monitoring run leaves in the company.
MonitorKeepsOthers(before, after) ==
    /\ after.community_validation = before.community_validation
    /\ after.cross_chain_presence = before.cross_chain_presence
    /\ after.basic_info = before.basic_info
    /\ after.web3_identity.domain_verified = before.web3_identity.domain_verified
    /\ after.web3_identity.github_org = before.web3_identity.github_org
    /\ after.web3_identity.social_verification_status
          = before.web3_identity.social_verification_status
    /\ Len(Proofs(after)) = Len(Proofs(before))
    /\ ProofsKept(before, after)

\* What the verifications and the monitoring runs have written, the status
\* apart, is what a community action leaves in the company.
CommunityKeepsOthers(before, after) ==
    /\ after.web3_identity = before.web3_identity
    /\ after.cross_chain_presence = before.cross_chain_presence
    /\ after.basic_info = before.basic_info
    /\ after.verification_score = before.verification_score

C29_SweepAdmitsNothingMore ==
    (last.op = "rate_limit" /\ last.allowed) => last.alone_allowed

\* C30: every call of detect_validation_fraud that reports at least one
\* pattern leaves in the event log the event of that detection, and leaves
\* every company as it was.
C30_DetectionNeverSilent ==
    [][(last'.op = "detect_validation_fraud" /\ last'.patterns >= 1) =>
          /\ now \in DOMAIN events'
          /\ events'[now] = RapidEndorsementEvent(last'.company_id, now)
          /\ companies' = companies]_vars

\* The number of patterns stated for company x at time t: one if more than
\* five of its endorsements are less than an hour old, one for each of its
\* testimonials whose author has testimonials in more than two other
\* companies, one for each of its endorsements whose endorser x endorses.
StatedPatterns(x, t) ==
    LET cv == companies[x].community_validation
        recent == {i \in DOMAIN cv.peer_endorsements :
                      t - cv.peer_endorsements[i].timestamp < ONE_HOUR}
        others(author_name) ==
            {d \in DOMAIN companies \ {x} :
                \E j \in DOMAIN companies[d].community_validation.employee_testimonials :
                   companies[d].community_validation.employee_testimonials[j].author_name
                       = author_name}
        reused == {i \in DOMAIN cv.employee_testimonials :
                      Cardinality(others(cv.employee_testimonials[i].author_name)) > 2}
        circles == {i \in DOMAIN cv.peer_endorsements :
                       /\ cv.peer_endorsements[i].endorser_company_id \in DOMAIN companies
                       /\ Endorses(x, cv.peer_endorsements[i].endorser_company_id)}
    IN  (IF Cardinality(recent) > 5 THEN 1 ELSE 0) + Cardinality(reused) + Cardinality(circles)

\* C31: detect_validation_fraud returns one pattern for more than five
\* endorsements of the trailing hour, one for each testimonial whose author
\* is reused in more than two other companies, one for each mutual
\* endorsement, and nothing else.
C31_PatternsReported ==
    (last.op = "detect_validation_fraud" /\ last.result = "Ok") =>
        last.patterns = StatedPatterns(last.company_id, now)

\* A detection that reported rapid endorsements, a reused author and a mutual
\* endorsement.
C31_Witness ==
    /\ last.op = "detect_validation_fraud"
    /\ last.rapid
    /\ last.patterns = 3

\* C32: a step that enqueues a task (schedule_proof_monitoring, or a
\* monitoring run whose handle_missing_proof enqueues a ReputationUpdate)
\* leaves every task that was pending and not executed by the step in the
\* queue, unchanged.
C32_EnqueueKeepsPending ==
    [][/\ last'.op = "schedule_proof_monitoring" =>
             \A id \in DOMAIN tasks : id \in DOMAIN tasks' /\ tasks'[id] = tasks[id]
       /\ last'.op \in ProcessOps =>
             \A id \in DOMAIN tasks :
                ~is_due(tasks[id], now) => (id \in DOMAIN tasks' /\ tasks'[id] = tasks[id])]_vars

\* The run at time now left a ReputationUpdate task of its own in the queue.
ReputationUpdateEnqueued ==
    /\ now \in DOMAIN tasks
    /\ tasks[now].task_type = "ReputationUpdate"
    /\ tasks[now].scheduled_at = now + REPUTATION_UPDATE_DELAY
    /\ tasks[now].retry_count = 0

\* C33: a proof found missing is penalized once: a run in which a ProofCheck
\* task finds missing a proof that an earlier check already marked Removed
\* enqueues no further ReputationUpdate task.
C33_MissingProofPenalizedOnce ==
    \A x \in MissingProofExecutions :
        x.proof[1].status = "Removed" => ~ReputationUpdateEnqueued

\* C34: an endorsement, testimonial, vouch or stake operation leaves the
\* status of a Flagged company Flagged.
C34_FlaggedSticky ==
    [][last'.op \in CommunityOps =>
          \A c \in DOMAIN companies :
             companies[c].status = "Flagged" =>
                 (c \in DOMAIN companies' /\ companies'[c].status = "Flagged")]_vars

\* C35: a verify call whose response is accepted finds the challenge it read
\* before its outcall still stored: a challenge that another call consumed in
\* the meantime is not accepted a second time.
C35_AcceptedAtMostOnce ==
    [][(last'.op \in VerifyOps /\ last'.phase = "response" /\ last'.result = "Ok") =>
          IF last'.op = "verify_domain_ownership"
          THEN /\ last'.company_id \in DOMAIN domain_challenges
               /\ domain_challenges[last'.company_id] = last'.looked_up[1]
          ELSE \E key \in DOMAIN crosschain_challenges :
                  crosschain_challenges[key] = last'.looked_up[1]]_vars

\* C36: the ProofCheck task that an accepted Ethereum verification enqueues
\* targets a proof id that is the generate_proof_id of a proof in the
\* company's proof list.
C36_EnqueuedProofResolves ==
    [][(last'.op = "verify_ethereum_contract" /\ last'.phase = "response"
          /\ last'.result = "Ok") =>
          /\ now \in DOMAIN tasks'
          /\ tasks'[now].task_type = "ProofCheck"
          /\ \E i \in DOMAIN Proofs(companies'[last'.company_id]) :
                Some(generate_proof_id(Proofs(companies'[last'.company_id])[i]))
                    = tasks'[now].target_proof_id]_vars

\* C37: no step lowers the number of community reports recorded against a
\* proof.
C37_ReportsNeverDecrease ==
    [][\A proof_id \in DOMAIN proof_monitoring :
          get_community_report_count(proof_monitoring', proof_monitoring[proof_id].company_id,
                                     proof_id)
              >= get_community_report_count(proof_monitoring,
                                            proof_monitoring[proof_id].company_id, proof_id)]_vars

\* The principals whose reports are recorded against the proof.
Reporters(pm, proof_id) ==
    IF proof_id \in DOMAIN pm
    THEN {pm[proof_id].community_reports[i].reporter_principal :
             i \in DOMAIN pm[proof_id].community_reports}
    ELSE {}

\* C38: a report moves a proof to Disputed only when the reports recorded
\* against the proof come from at least three distinct reporters.
C38_DisputeNeedsThreeReporters ==
    [][(/\ last'.op = "submit_community_report"
        /\ StatusOf(companies, last'.company_id, last'.proof_id) # Some("Disputed")
        /\ StatusOf(companies', last'.company_id, last'.proof_id) = Some("Disputed"))
       => Cardinality(Reporters(proof_monitoring', last'.proof_id)) >= REPORT_THRESHOLD]_vars

\* C39: domain_verified becomes true for a company only in the step in which
\* verify_domain_ownership accepts a domain challenge of that company.
C39_DomainVerifiedByChallengeOnly ==
    [][\A c \in DOMAIN companies' :
          (/\ companies'[c].web3_identity.domain_verified
           /\ c \in DOMAIN companies => ~companies[c].web3_identity.domain_verified)
          => (/\ last'.op = "verify_domain_ownership"
              /\ last'.result = "Ok"
              /\ last'.company_id = c)]_vars

\* C40: no company's endorsement list holds an endorsement by the company
\* itself or two endorsements by one endorser, and no company's vouch list
\* holds two vouches of one principal.
C40_ValidationListsWellFormed ==
    \A c \in DOMAIN companies :
        LET endorsements == companies[c].community_validation.peer_endorsements
            vouches == companies[c].community_validation.community_vouches
        IN  /\ \A i \in DOMAIN endorsements : endorsements[i].endorser_company_id # c
            /\ \A i, j \in DOMAIN endorsements :
                  i # j => endorsements[i].endorser_company_id
                               # endorsements[j].endorser_company_id
            /\ \A i, j \in DOMAIN vouches :
                  i # j => vouches[i].voucher_principal # vouches[j].voucher_principal

\* A second endorsement by an endorser whose endorsement is in the list was
\* refused.
C40_Witness ==
    /\ last.op = "add_endorsement"
    /\ last.result = "ErrAlreadyExists"
    /\ \E c \in DOMAIN companies :
          companies[c].community_validation.peer_endorsements # <<>>
====
